---- MODULE Spec2Model ----
(***************************************************************************)
(* Speech-turn backend of the Chinese-Tutor repository: the upload checks, *)
(* the STT -> intent/translation -> shaping -> synthesis pipeline of       *)
(* _speech_turn_handler, the AUDIO_JOBS registry with its background task  *)
(* and poll endpoint, and the defensive parser _parse_text_result.         *)
(*                                                                         *)
(* Python strings that the code inspects character by character (strip,    *)
(* split, lower, substring tests, concatenation) are sequences of          *)
(* one-character strings.  Values that may be None are tagged records.     *)
(***************************************************************************)
EXTENDS Integers, Sequences, FiniteSets, TLC

VARIABLES
    turns,        \* per request: the frame of _speech_turn_handler
    AUDIO_JOBS,   \* main.py AUDIO_JOBS: job id -> job dict
    jobLog,       \* history: job id -> sequence of the writes made to AUDIO_JOBS[id]
    callIn,       \* arguments of the function a function-level specification applies
    callOut       \* its outcome

vars == <<turns, AUDIO_JOBS, jobLog, callIn, callOut>>

---------------------------------------------------------------------------
(* Bounds of the model *)

MaxTurns == 2          \* speech-turn requests served, possibly concurrently
MaxContentLen == 4     \* lexical tokens in a generation response

---------------------------------------------------------------------------
(* Python string primitives *)

Whitespace == {" ", "\n", "\t"}

UpperChars == <<"A", "B", "C", "D", "E", "F", "G", "H", "I", "J", "K", "L", "M", "N", "O", "P", "Q", "R", "S", "T", "U", "V", "W", "X", "Y", "Z">>
LowerChars == <<"a", "b", "c", "d", "e", "f", "g", "h", "i", "j", "k", "l", "m", "n", "o", "p", "q", "r", "s", "t", "u", "v", "w", "x", "y", "z">>

LowerChar(c) ==
    IF \E i \in 1..Len(UpperChars) : UpperChars[i] = c
    THEN LowerChars[CHOOSE i \in 1..Len(UpperChars) : UpperChars[i] = c]
    ELSE c

\* str.lower()
lower(s) == [i \in 1..Len(s) |-> LowerChar(s[i])]

\* `sub in s`
Contains(sub, s) ==
    \E i \in 0..(Len(s) - Len(sub)) : \A j \in 1..Len(sub) : s[i + j] = sub[j]

RECURSIVE lstrip(_)
lstrip(s) == IF s # <<>> /\ Head(s) \in Whitespace THEN lstrip(Tail(s)) ELSE s

RECURSIVE rstrip(_)
rstrip(s) ==
    IF s # <<>> /\ s[Len(s)] \in Whitespace THEN rstrip(SubSeq(s, 1, Len(s) - 1)) ELSE s

\* str.strip()
strip(s) == rstrip(lstrip(s))

\* len(s.split()): the number of maximal runs of non-whitespace characters
SplitCount(s) ==
    Cardinality({i \in 1..Len(s) :
        s[i] \notin Whitespace /\ (i = 1 \/ s[i - 1] \in Whitespace)})

---------------------------------------------------------------------------
(* Tagged Python / JSON values *)

PyNone == [t |-> "none"]
JAbsent == [t |-> "absent"]          \* key missing from a dict
JNull == [t |-> "null"]
JStr(s) == [t |-> "str", v |-> s]
JNum(n) == [t |-> "num", v |-> n]
JList(l) == [t |-> "list", v |-> l]
JObj(f) == [t |-> "obj", f |-> f]

\* dict.get(key): a missing key and a JSON null both read as None
IsNone(j) == j.t \in {"absent", "null", "none"}

\* Python truthiness, as used by `x or default`
Truthy(j) ==
    CASE j.t = "str" -> j.v # <<>>
      [] j.t = "num" -> j.v # 0
      [] j.t = "list" -> j.v # <<>>
      [] j.t = "obj" -> TRUE
      [] OTHER -> FALSE

Digits == <<"0", "1", "2", "3", "4", "5", "6", "7", "8", "9">>

RECURSIVE JoinRepr(_)
\* str(x) for the values a payload field can hold; repr for the items of a list
PyRepr(j) ==
    CASE j.t = "str" -> <<"'">> \o j.v \o <<"'">>
      [] j.t = "num" -> <<Digits[j.v + 1]>>
      [] j.t = "list" -> <<"[">> \o JoinRepr(j.v) \o <<"]">>
      [] OTHER -> <<"N", "o", "n", "e">>
JoinRepr(l) ==
    IF l = <<>> THEN <<>>
    ELSE IF Len(l) = 1 THEN PyRepr(l[1])
    ELSE PyRepr(l[1]) \o <<",", " ">> \o JoinRepr(Tail(l))

PyStrOf(j) == IF j.t = "str" THEN j.v ELSE PyRepr(j)

\* `x or default`, then str(...)
StrOrDefault(j, default) == IF Truthy(j) THEN PyStrOf(j) ELSE default

\* The outcome of a call: a returned value or a raised exception
Ok(v) == [raised |-> FALSE, exc |-> "", val |-> v]
Raise(e) == [raised |-> TRUE, exc |-> e, val |-> PyNone]

---------------------------------------------------------------------------
(* String literals of the source *)

StrTranslateRequest == <<"t", "r", "a", "n", "s", "l", "a", "t", "e", "_", "r", "e", "q", "u", "e", "s", "t">>
StrUnknown == <<"u", "n", "k", "n", "o", "w", "n">>
PrefixHowDoISay == <<"H", "o", "w", " ", "d", "o", " ", "I", " ", "s", "a", "y", ":", " ", "'">>
SuffixQuote == <<"'", "?">>
PrefixIHeard == <<"I", " ", "h", "e", "a", "r", "d", ":", " ">>
NoteParseFailed == <<"U", "n", "a", "b", "l", "e", " ", "t", "o", " ", "p", "a", "r", "s", "e", " ", "G", "e", "m", "i", "n", "i", " ", "r", "e", "s", "p", "o", "n", "s", "e", ".">>
NoteHeuristic == <<"H", "e", "u", "r", "i", "s", "t", "i", "c", ":", " ", "d", "e", "t", "e", "c", "t", "e", "d", " ", "t", "r", "a", "n", "s", "l", "a", "t", "i", "o", "n", " ", "r", "e", "q", "u", "e", "s", "t", ".">>
NoteIncomplete == <<"T", "r", "a", "n", "s", "l", "a", "t", "i", "o", "n", " ", "i", "n", "c", "o", "m", "p", "l", "e", "t", "e", ";", " ", "s", "p", "e", "a", "k", "i", "n", "g", " ", "a", " ", "f", "a", "l", "l", "b", "a", "c", "k", ".", " ", "P", "l", "e", "a", "s", "e", " ", "r", "e", "t", "r", "y", ".">>
SubHowDoISay == <<"h", "o", "w", " ", "d", "o", " ", "i", " ", "s", "a", "y">>
SubSay == <<"s", "a", "y", " ">>
SubSpInChinese == <<" ", "i", "n", " ", "c", "h", "i", "n", "e", "s", "e">>
SubInChinese == <<"i", "n", " ", "c", "h", "i", "n", "e", "s", "e">>
SubAndChinese == <<" ", "a", "n", "d", " ", "c", "h", "i", "n", "e", "s", "e">>
SubStay == <<" ", "s", "t", "a", "y", " ">>
SubBargainChip == <<" ", "b", "a", "r", "g", "a", "i", "n", " ", "c", "h", "i", "p">>

---------------------------------------------------------------------------
(* services/speech_turn.py: _parse_text_result                             *)
(*                                                                         *)
(* A generation response is a sequence of lexical tokens: whitespace, a    *)
(* "```json" fence (any letter case), a bare "```" fence, prose that is no *)
(* JSON, and complete JSON values.                                         *)

TokWs == [tok |-> "ws"]
TokFenceJson == [tok |-> "fence_json"]
TokFence == [tok |-> "fence"]
TokProse == [tok |-> "prose"]
TokJson(j) == [tok |-> "json", val |-> j]

RECURSIVE StripLeadingWs(_)
StripLeadingWs(s) ==
    IF s # <<>> /\ Head(s) = TokWs THEN StripLeadingWs(Tail(s)) ELSE s

RECURSIVE StripTrailingWs(_)
StripTrailingWs(s) ==
    IF s # <<>> /\ s[Len(s)] = TokWs
    THEN StripTrailingWs(SubSeq(s, 1, Len(s) - 1)) ELSE s

\* content.strip()
StripContent(s) == StripTrailingWs(StripLeadingWs(s))

\* re.sub(r"^```json\s*|\s*```$", "", s, flags=re.IGNORECASE): a leading
\* "```json" with the whitespace after it, and a trailing "```" with the
\* whitespace before it, are removed; a leading bare "```" is not.
SubFences(s) ==
    LET a == IF s # <<>> /\ Head(s) = TokFenceJson THEN StripLeadingWs(Tail(s)) ELSE s
    IN  IF a # <<>> /\ a[Len(a)] = TokFence
        THEN StripTrailingWs(SubSeq(a, 1, Len(a) - 1)) ELSE a

\* json.loads(s): one JSON value, whitespace allowed around it
json_loads(s) ==
    LET body == StripContent(s)
    IN  IF Len(body) = 1 /\ body[1].tok = "json"
        THEN Ok(body[1].val) ELSE Raise("JSONDecodeError")

_normalize_notes(raw) ==
    IF IsNone(raw) THEN <<>>
    ELSE IF raw.t = "str" THEN <<raw.v>>
    ELSE IF raw.t = "list" THEN [i \in 1..Len(raw.v) |-> PyStrOf(raw.v[i])]
    ELSE <<PyStrOf(raw)>>

SpeechTurnTextResult(normalized_request, intent, chinese, pinyin, notes) ==
    [normalized_request |-> normalized_request, intent |-> intent,
     chinese |-> chinese, pinyin |-> pinyin, notes |-> notes]

\* lines 337-343: the value returned by the except branch
ParseFailureResult(transcript) ==
    SpeechTurnTextResult(PrefixHowDoISay \o transcript \o SuffixQuote,
                         "unknown", <<>>, <<>>, <<NoteParseFailed>>)

\* lines 312-334: the body of the try block
ParseTry(content, transcript) ==
    IF content.t # "str" THEN Raise("AttributeError")       \* content.strip()
    ELSE
    LET loaded == json_loads(SubFences(StripContent(content.v)))
    IN  IF loaded.raised THEN loaded
        ELSE IF loaded.val.t # "obj" THEN Raise("AttributeError")   \* payload.get
        ELSE
        LET payload == loaded.val.f
            raw_intent == StrOrDefault(payload.intent, StrUnknown)
            intent == IF raw_intent = StrTranslateRequest
                      THEN "translate_request" ELSE "unknown"
            chinese == StrOrDefault(payload.chinese, <<>>)
            pinyin == StrOrDefault(payload.pinyin, <<>>)
        IN  Ok(SpeechTurnTextResult(
                StrOrDefault(payload.normalized_request,
                             PrefixHowDoISay \o transcript \o SuffixQuote),
                intent,
                IF intent = "unknown" THEN <<>> ELSE chinese,
                IF intent = "unknown" THEN <<>> ELSE pinyin,
                _normalize_notes(payload.notes)))

\* A parser that leaves chinese and pinyin in place when the intent is unknown
ParseKeepsText(content, transcript) ==
    LET r == ParseTry(content, transcript)
    IN  IF r.raised THEN Ok(ParseFailureResult(transcript))
        ELSE LET payload == json_loads(SubFences(StripContent(content.v))).val.f
             IN  Ok([r.val EXCEPT !.chinese = StrOrDefault(payload.chinese, <<>>),
                                  !.pinyin = StrOrDefault(payload.pinyin, <<>>)])

\* A parser without the `except Exception` branch
ParseUncaught(content, transcript) == ParseTry(content, transcript)

\* lines 310-343
_parse_text_result(content, transcript) ==
    LET r == ParseTry(content, transcript)
    IN  IF r.raised THEN Ok(ParseFailureResult(transcript)) ELSE r

---------------------------------------------------------------------------
(* services/gemini_stt.py: GeminiSTTClient                                 *)
(*                                                                         *)
(* An upstream answer is [http |-> "ok" | "error", text |-> tagged value]: *)
(* "error" stands for every outcome on which the httpx call or             *)
(* raise_for_status raises (HTTP error status, transport error, timeout).  *)

UpstreamError == [http |-> "error", text |-> PyNone]
UpstreamText(s) == [http |-> "ok", text |-> JStr(s)]
UpstreamNoText == [http |-> "ok", text |-> JAbsent]

_needs_normalization(t) ==
    LET s == strip(t)
    IN  \/ SplitCount(s) <= 2
        \/ \E x \in {SubAndChinese, SubStay, SubBargainChip} : Contains(x, lower(s))

transcribe_raw(resp) ==
    IF resp.http # "ok" THEN Raise("HTTPStatusError")
    ELSE IF ~Truthy(resp.text) THEN Raise("ValueError")
    ELSE Ok(strip(resp.text.v))

normalize_transcript(transcript, resp) ==
    IF resp.http # "ok" THEN Raise("HTTPStatusError")
    ELSE IF resp.text.t \notin {"str", "absent"} THEN Raise("AttributeError")
    ELSE LET cleaned == strip(IF resp.text.t = "str" THEN resp.text.v ELSE <<>>)
         IN  Ok(IF cleaned # <<>> THEN cleaned ELSE transcript)

---------------------------------------------------------------------------
(* services/speech_turn.py: heuristic shortcut and response shaping *)

\* A heuristic that knows the "how do i say" phrasing only
LooksLikeHowDoISay(t) == Contains(SubHowDoISay, lower(t))

_looks_like_translate_request(t) ==
    LET s == lower(t)
    IN  \/ Contains(SubHowDoISay, s)
        \/ (Contains(SubSay, s) /\ Contains(SubSpInChinese, s))
        \/ Contains(SubInChinese, s)

\* run_stt_and_llm, lines 195-201
HeuristicTextResult(transcript) ==
    SpeechTurnTextResult(transcript, "translate_request", <<>>, <<>>, <<NoteHeuristic>>)

\* A shaper that speaks chinese as it is, without the fallback
ShapeWithoutFallback(transcript, text_result) ==
    [chinese |-> text_result.chinese, pinyin |-> text_result.pinyin,
     notes |-> text_result.notes, tts_text |-> text_result.chinese]

\* lines 296 and 300: notes = text_result.notes; notes = notes + [...] builds a
\* new list, so the argument is as it was when _build_response_parts returns
TextResultAfterShaping(text_result) == text_result

_build_response_parts(transcript, text_result) ==
    LET incomplete == /\ text_result.intent = "translate_request"
                      /\ strip(text_result.chinese) = <<>>
        chinese == IF incomplete THEN <<>> ELSE text_result.chinese
        pinyin == IF incomplete THEN <<>> ELSE text_result.pinyin
        notes == IF incomplete THEN text_result.notes \o <<NoteIncomplete>>
                 ELSE text_result.notes
    IN  [chinese |-> chinese, pinyin |-> pinyin, notes |-> notes,
         tts_text |-> IF chinese # <<>> THEN chinese ELSE PrefixIHeard \o transcript]

---------------------------------------------------------------------------
(* models/speech_turn.py: the pydantic response models *)

\* SpeechTurnAudio._validate_source
SpeechTurnAudioValid(audio) == Truthy(audio.url) \/ Truthy(audio.base64)

\* The fields SpeechTurnResponse declares; pydantic ignores every other keyword
SpeechTurnResponseFields ==
    {"source_lang", "target_lang", "scenario", "transcript", "normalized_request",
     "intent", "chinese", "pinyin", "notes", "audio", "analysis"}

\* SpeechTurnResponse(**kwargs): `audio` is a required SpeechTurnAudio, so None
\* is a validation error; then _validate_translation_fields runs.
SpeechTurnResponse(kwargs) ==
    IF IsNone(kwargs.audio) THEN Raise("ValidationError")
    ELSE IF ~SpeechTurnAudioValid(kwargs.audio) THEN Raise("ValidationError")
    ELSE IF /\ kwargs.intent = "translate_request"
            /\ (IsNone(kwargs.chinese) \/ IsNone(kwargs.pinyin))
         THEN Raise("ValidationError")
    ELSE Ok([f \in SpeechTurnResponseFields |-> kwargs[f]])

\* An analysis that carries a score
ScoredAnalysis == [overall_score |-> JNum(1), phoneme_confidence |-> <<>>]

\* SpeechTurnAnalysis(overall_score=None, phoneme_confidence=[])
SpeechTurnAnalysis == [overall_score |-> PyNone, phoneme_confidence |-> <<>>]

---------------------------------------------------------------------------
(* security.py and main.py: identities *)

Users == {"alice", "bob", "root"}
ADMIN_USERS == {"root"}

get_default_roles(username) ==
    IF username \in ADMIN_USERS THEN {"admin", "user"} ELSE {"user"}

\* main.py line 264: the scopes of every token /auth/login issues
LoginScopes == {"chat:write", "speech:write"}

\* get_auth_context: the context decoded from a valid access token
AuthContext(user_id) ==
    [user_id |-> user_id, roles |-> get_default_roles(user_id), scopes |-> LoginScopes]

AuthContexts == {AuthContext(u) : u \in Users}

\* require_scopes(*scopes)._checker
require_scopes(scopes, ctx) ==
    IF \E s \in scopes : s \notin ctx.scopes THEN Raise("HTTP403") ELSE Ok(ctx)

\* What a request may carry in its Authorization header: a valid access token
\* of a user, nothing, a token that does not decode as an access token (bad
\* signature, expired, or a refresh or audio token), or a valid access token
\* whose scopes lack speech:write
Credentials ==
    {[kind |-> "access", ctx |-> AuthContext(u)] : u \in Users}
    \cup {[kind |-> "none"], [kind |-> "invalid"],
          [kind |-> "access",
           ctx |-> [AuthContext("alice") EXCEPT !.scopes = {"chat:write"}]]}

\* What the credentials of a request are, whatever the server makes of them
CredentialClass(credentials) ==
    IF credentials.kind # "access" THEN "unauthenticated"
    ELSE IF "speech:write" \in credentials.ctx.scopes THEN "authorized"
    ELSE "unscoped"

\* get_auth_context, lines 187-204
get_auth_context(credentials) ==
    IF credentials.kind # "access" THEN Raise("HTTP401") ELSE Ok(credentials.ctx)

\* An endpoint that lets every request through to the handler
AuthorizeAnyone(scopes, credentials) == Ok(AuthContext("alice"))

\* Depends(require_scopes(...)) on top of Depends(get_auth_context)
Authorize(scopes, credentials) ==
    LET got == get_auth_context(credentials)
    IN  IF got.raised THEN got ELSE require_scopes(scopes, got.val)

---------------------------------------------------------------------------
(* main.py: upload limits *)

MAX_AUDIO_BYTES == 10485760
SyncBudgetMs == 15000
MaxFraming == 1        \* bytes of multipart framing and form fields around the audio

NoHeader == -1         \* request.headers.get("content-length") is None

\* the audio lengths a client may send: the boundary values of the two checks
AudioLens == {0, MAX_AUDIO_BYTES, MAX_AUDIO_BYTES + 1}
\* the Content-Length header: absent (chunked upload) or the length of the whole
\* multipart body, which is the audio and the framing around it
ContentLengths(audio_len) == {NoHeader} \cup {audio_len + o : o \in 1..MaxFraming}

\* body_limit_middleware: 413, or 0 for call_next
body_limit_middleware(content_length) ==
    IF content_length # NoHeader /\ content_length > MAX_AUDIO_BYTES THEN 413 ELSE 0

\* A size check that forgets the empty upload
SizeCheckWithoutEmpty(audio_len) == IF audio_len > MAX_AUDIO_BYTES THEN 413 ELSE 0

\* _speech_turn_handler lines 569-573: the status raised, or 0 to go on
HandlerSizeCheck(audio_len) ==
    IF audio_len = 0 THEN 400
    ELSE IF audio_len > MAX_AUDIO_BYTES THEN 413
    ELSE 0

\* the elapsed time read at line 597, around the synchronous budget
ElapsedChoices == {SyncBudgetMs, SyncBudgetMs + 1}

---------------------------------------------------------------------------
(* The call service.synthesize_audio(..., voice_name=voice_name)           *)

\* services/speech_turn.py lines 214-220: the keyword-only parameters
SynthesizeAudioParams == {"tts_text", "target_lang", "base_url"}

\* main.py lines 618-623 and 663-668: the keywords both call sites pass
HandlerSynthesizeKwargs == {"tts_text", "target_lang", "base_url", "voice_name"}

\* Python binds a call only if every keyword is a parameter; otherwise the call
\* raises TypeError before the coroutine exists.
SynthesizeAudioCall ==
    IF HandlerSynthesizeKwargs \subseteq SynthesizeAudioParams
    THEN "bound" ELSE "TypeError"

---------------------------------------------------------------------------
(* main.py: AUDIO_JOBS *)

Turns == 1..MaxTurns

\* An id generator that can hand out an id already in use
ReusedJobId == IF AUDIO_JOBS = <<>> THEN 1 ELSE CHOOSE j \in DOMAIN AUDIO_JOBS : TRUE

\* uuid4().hex: an id no job has yet
NewJobId == Cardinality(DOMAIN AUDIO_JOBS) + 1

\* A job that does not record who created the turn
JobWithoutOwner(owner_id) ==
    [status |-> "pending", audio_url |-> PyNone, audio_base64 |-> PyNone,
     audio_mime |-> PyNone, tts_error |-> PyNone, owner_id |-> ""]

\* lines 601-608
PendingJob(owner_id) ==
    [status |-> "pending", audio_url |-> PyNone, audio_base64 |-> PyNone,
     audio_mime |-> PyNone, tts_error |-> PyNone, owner_id |-> owner_id]

\* AUDIO_JOBS[job_id] = job, with the write recorded in the history
WriteJob(job_id, job, turn, kind) ==
    /\ AUDIO_JOBS' = (job_id :> job) @@ AUDIO_JOBS
    /\ jobLog' = (job_id :> (IF job_id \in DOMAIN jobLog THEN jobLog[job_id] ELSE <<>>)
                              \o <<[by |-> turn, kind |-> kind,
                                    before |-> IF job_id \in DOMAIN AUDIO_JOBS
                                               THEN AUDIO_JOBS[job_id].status ELSE "absent",
                                    after |-> job.status]>>)
                 @@ jobLog

\* A poll that skips the ownership test
PollWithoutOwnerCheck(job_id, auth) ==
    IF job_id \notin DOMAIN AUDIO_JOBS
    THEN [status |-> 404, payload |-> PyNone]
    ELSE [status |-> 200,
          payload |-> [status |-> AUDIO_JOBS[job_id].status,
                       audio_url |-> AUDIO_JOBS[job_id].audio_url,
                       audio_base64 |-> AUDIO_JOBS[job_id].audio_base64,
                       audio_mime |-> AUDIO_JOBS[job_id].audio_mime,
                       tts_error |-> AUDIO_JOBS[job_id].tts_error]]

\* speech_audio_job, lines 751-766, behind Depends(require_scopes("speech:write"))
speech_audio_job(job_id, auth) ==
    IF require_scopes({"speech:write"}, auth).raised
    THEN [status |-> 403, payload |-> PyNone]
    ELSE IF job_id \notin DOMAIN AUDIO_JOBS
    THEN [status |-> 404, payload |-> PyNone]
    ELSE LET job == AUDIO_JOBS[job_id]
         IN  IF job.owner_id # auth.user_id /\ "admin" \notin auth.roles
             THEN [status |-> 403, payload |-> PyNone]
             ELSE [status |-> 200,
                   payload |-> [status |-> job.status, audio_url |-> job.audio_url,
                                audio_base64 |-> job.audio_base64,
                                audio_mime |-> job.audio_mime,
                                tts_error |-> job.tts_error]]

---------------------------------------------------------------------------
(* Upstream answers the environment may give *)

TxThanks == <<"H", "o", "w", " ", "d", "o", " ", "I", " ", "s", "a", "y", " ", "t", "h", "a", "n", "k", " ", "y", "o", "u", " ", "i", "n", " ", "C", "h", "i", "n", "e", "s", "e">>
TxStation == <<" ", "W", "h", "e", "r", "e", " ", "i", "s", " ", "t", "h", "e", " ", "t", "r", "a", "i", "n", " ", "s", "t", "a", "t", "i", "o", "n", " ">>
TxShort == <<"T", "h", "a", "n", "k", " ", "y", "o", "u">>
TxSayIn == <<"S", "a", "y", " ", "h", "i", " ", "i", "n", " ", "C", "h", "i", "n", "e", "s", "e">>
StrXie == <<"x", "i", "e", "x", "i", "e">>
StrGreeting == <<"g", "r", "e", "e", "t", "i", "n", "g">>
NoteMocked == <<"M", "o", "c", "k", "e", "d", " ", "r", "e", "s", "p", "o", "n", "s", "e">>

\* answers to transcribe_raw: a request the heuristic recognises, one it does
\* not, and one that _needs_normalization flags
SttRawResponses ==
    {UpstreamError, UpstreamNoText, UpstreamText(TxThanks), UpstreamText(TxStation),
     UpstreamText(TxShort)}

\* answers to normalize_transcript
SttNormResponses == {UpstreamError, UpstreamText(TxThanks), UpstreamText(TxStation)}

PayloadOf(intent, chinese, pinyin, notes, normalized_request) ==
    JObj([intent |-> intent, chinese |-> chinese, pinyin |-> pinyin, notes |-> notes,
          normalized_request |-> normalized_request])

ObjTranslate ==
    PayloadOf(JStr(StrTranslateRequest), JStr(StrXie), JStr(StrXie),
              JList(<<JStr(NoteMocked)>>), JStr(TxShort))

ObjBlankChinese ==
    PayloadOf(JStr(StrTranslateRequest), JStr(<<" ">>), JNull, JAbsent, JAbsent)

Http429 == [http |-> "429", text |-> PyNone]

\* answers of the generateContent call of GeminiSpeechTurnTextClient.generate
GenResponses ==
    {Http429, UpstreamError, UpstreamNoText,
     [http |-> "ok", text |-> JStr(<<TokJson(ObjTranslate)>>)],
     [http |-> "ok", text |-> JStr(<<TokFenceJson, TokWs, TokJson(ObjBlankChinese), TokWs, TokFence>>)],
     [http |-> "ok", text |-> JStr(<<TokProse>>)]}

---------------------------------------------------------------------------
(* main.py: _speech_turn_handler, one request per turn                     *)
(*                                                                         *)
(* pc is the await the handler is suspended at: "stt_raw" and "stt_norm"   *)
(* (the two calls of GeminiSTTClient.transcribe), "llm" (the generation    *)
(* call), "tts" (the synthesis call), or "done".  status is the HTTP       *)
(* status of the answer: an HTTPException's own, 500 for any other         *)
(* exception that leaves the handler, 200 for a returned response.         *)

IdleTurn ==
    [pc |-> "idle", user_id |-> "", audioLen |-> 0,
     auth |-> "",                  \* the class of the request's credentials
     contentLength |-> NoHeader,   \* kept for the requests the middleware answers
     rejectedBy |-> "", transcript |-> <<>>, attempt |-> 0, upstream |-> {},
     wait |-> 0,                   \* ms of the time.sleep the turn is inside
     answer |-> "",                \* the kind of the last generation answer
     path |-> "", elapsed |-> 0, jobId |-> 0, task |-> "none",
     status |-> 0, error |-> "", response |-> PyNone]

\* the handler ends by raising: its locals are released
Finished(frame, status, error) ==
    [frame EXCEPT !.pc = "done", !.status = status, !.error = error,
                  !.transcript = <<>>, !.attempt = 0]

\* the handler ends by returning a response
Returned(frame, response) ==
    [frame EXCEPT !.pc = "done", !.status = 200, !.response = response,
                  !.transcript = <<>>, !.attempt = 0]

\* lines 642-661: the keywords of the response built on the deferred path
DeferredResponseKwargs(transcript, text_result, parts, job_id) ==
    [assistant_text |-> parts.tts_text, source_lang |-> "en", target_lang |-> "zh",
     scenario |-> "restaurant", transcript |-> transcript,
     normalized_request |-> text_result.normalized_request,
     intent |-> text_result.intent, chinese |-> JStr(parts.chinese),
     pinyin |-> JStr(parts.pinyin), notes |-> parts.notes,
     audio |-> PyNone, audio_url |-> PyNone, audio_base64 |-> PyNone,
     audio_mime |-> PyNone, audio_job_id |-> job_id, audio_pending |-> TRUE,
     tts_error |-> PyNone, analysis |-> SpeechTurnAnalysis]

\* lines 599-661: elapsed_ms > 15000
DeferredPath(t, frame, transcript, text_result, parts) ==
    LET job_id == NewJobId
        built == SpeechTurnResponse(
                     DeferredResponseKwargs(transcript, text_result, parts, job_id))
        started == [frame EXCEPT !.path = "deferred", !.jobId = job_id,
                                 !.task = "scheduled"]
    IN  /\ WriteJob(job_id, PendingJob(frame.user_id), t, "create")
        /\ turns' = [turns EXCEPT ![t] =
               IF built.raised THEN Finished(started, 500, built.exc)
               ELSE Returned(started, built.val)]

\* lines 663-668: the inline call of synthesize_audio
InlinePath(t, frame) ==
    LET started == [frame EXCEPT !.path = "inline"]
    IN  /\ turns' = [turns EXCEPT ![t] =
               IF SynthesizeAudioCall = "TypeError"
               THEN Finished(started, 500, "TypeError")
               ELSE [started EXCEPT !.pc = "tts", !.upstream = @ \cup {"tts"}]]
        /\ UNCHANGED <<AUDIO_JOBS, jobLog>>

\* lines 596-599: shaping, then the choice between the two paths
AfterInterpret(t, frame, transcript, text_result) ==
    LET parts == _build_response_parts(transcript, text_result)
    IN  \E elapsed_ms \in ElapsedChoices :
            IF elapsed_ms > SyncBudgetMs
            THEN DeferredPath(t, [frame EXCEPT !.elapsed = elapsed_ms],
                              transcript, text_result, parts)
            ELSE InlinePath(t, [frame EXCEPT !.elapsed = elapsed_ms])

\* A pipeline that starts generation while normalization is still awaited
GenerateWhileTranscribing(t, frame, transcript) ==
    /\ turns' = [turns EXCEPT ![t] =
           [frame EXCEPT !.pc = "stt_norm", !.transcript = transcript,
                         !.upstream = @ \cup {"llm"}]]
    /\ UNCHANGED <<AUDIO_JOBS, jobLog>>

\* run_stt_and_llm lines 192-210, entered with the transcript
AfterTranscribe(t, frame, transcript) ==
    IF _looks_like_translate_request(transcript)
    THEN AfterInterpret(t, frame, transcript, HeuristicTextResult(transcript))
    ELSE /\ turns' = [turns EXCEPT ![t] =
                [frame EXCEPT !.pc = "llm", !.transcript = transcript,
                              !.attempt = 0, !.upstream = @ \cup {"llm"}]]
         /\ UNCHANGED <<AUDIO_JOBS, jobLog>>

\* body_limit_middleware, then the dependencies of speech_turn, then
\* _speech_turn_handler up to the first await of GeminiSTTClient.transcribe.
\* The middleware runs before the request is authenticated.
Receive(t) ==
    /\ turns[t].pc = "idle"
    /\ \A u \in Turns : u < t => turns[u].pc # "idle"
    /\ \E credentials \in Credentials, audio_len \in AudioLens :
       \E content_length \in ContentLengths(audio_len) :
         LET auth == Authorize({"speech:write"}, credentials)
             request == [IdleTurn EXCEPT !.audioLen = audio_len,
                                         !.auth = CredentialClass(credentials)]
             mw == body_limit_middleware(content_length)
             chk == HandlerSizeCheck(audio_len)
         IN  turns' = [turns EXCEPT ![t] =
                 IF mw # 0
                 THEN [Finished(request, mw, "HTTPException") EXCEPT
                           !.rejectedBy = "middleware", !.contentLength = content_length]
                 ELSE IF auth.raised
                 THEN [Finished(request, IF auth.exc = "HTTP401" THEN 401 ELSE 403,
                                "HTTPException") EXCEPT !.rejectedBy = "auth"]
                 ELSE IF chk # 0
                 THEN [Finished([request EXCEPT !.user_id = auth.val.user_id],
                                chk, "HTTPException") EXCEPT !.rejectedBy = "handler"]
                 ELSE [request EXCEPT !.user_id = auth.val.user_id,
                                      !.pc = "stt_raw", !.upstream = {"stt"}]]
    /\ UNCHANGED <<AUDIO_JOBS, jobLog, callIn, callOut>>

\* GeminiSTTClient.transcribe: the answer to transcribe_raw arrives
SttRawReturn(t) ==
    /\ turns[t].pc = "stt_raw"
    /\ \E resp \in SttRawResponses :
         LET raw == transcribe_raw(resp)
         IN  IF raw.raised
             THEN /\ turns' = [turns EXCEPT ![t] = Finished(@, 500, raw.exc)]
                  /\ UNCHANGED <<AUDIO_JOBS, jobLog>>
             ELSE IF _needs_normalization(raw.val)
             THEN /\ turns' = [turns EXCEPT ![t] =
                         [@ EXCEPT !.pc = "stt_norm", !.transcript = raw.val]]
                  /\ UNCHANGED <<AUDIO_JOBS, jobLog>>
             ELSE AfterTranscribe(t, turns[t], raw.val)
    /\ UNCHANGED <<callIn, callOut>>

\* GeminiSTTClient.transcribe: the answer to normalize_transcript arrives
SttNormReturn(t) ==
    /\ turns[t].pc = "stt_norm"
    /\ \E resp \in SttNormResponses :
         LET norm == normalize_transcript(turns[t].transcript, resp)
         IN  IF norm.raised
             THEN /\ turns' = [turns EXCEPT ![t] = Finished(@, 500, norm.exc)]
                  /\ UNCHANGED <<AUDIO_JOBS, jobLog>>
             ELSE AfterTranscribe(t, turns[t], norm.val)
    /\ UNCHANGED <<callIn, callOut>>

\* lines 90, 97-101, 103-111: what kind of answer the attempt got
AnswerClass(resp) ==
    IF resp.http = "429" THEN "429"
    ELSE IF resp.http # "ok" THEN "error"
    ELSE IF ~Truthy(resp.text) THEN "notext"
    ELSE "content"

\* A loop that treats every failure like a 429
RetryOnFailure(frame) ==
    IF frame.attempt + 1 < 3 THEN [frame EXCEPT !.attempt = @ + 1]
    ELSE Finished(frame, 500, "ValueError")

\* lines 97-101 and 116 (raise last_exc), lines 110-111 (raise ValueError):
\* the frame after an answer that is an error status or has no text
GenerateFailure(frame) ==
    Finished(frame, 500,
             IF frame.answer = "error" THEN "HTTPStatusError" ELSE "ValueError")

\* GeminiSpeechTurnTextClient.generate lines 82-116: the answer to one attempt
LlmReturn(t) ==
    /\ turns[t].pc = "llm"
    /\ \E resp \in GenResponses :
         LET frame == [turns[t] EXCEPT !.answer = AnswerClass(resp)]
         IN  IF frame.answer = "429"
             THEN /\ turns' = [turns EXCEPT ![t] =
                         IF frame.attempt + 1 < 3
                         THEN [frame EXCEPT !.attempt = @ + 1]
                         ELSE Finished(frame, 500, "ValueError")]
                  /\ UNCHANGED <<AUDIO_JOBS, jobLog>>
             ELSE IF frame.answer \in {"error", "notext"}
             THEN /\ turns' = [turns EXCEPT ![t] = GenerateFailure(frame)]
                  /\ UNCHANGED <<AUDIO_JOBS, jobLog>>
             ELSE AfterInterpret(t, frame, frame.transcript,
                                 _parse_text_result(resp.text, frame.transcript).val)
    /\ UNCHANGED <<callIn, callOut>>

\* lines 617-640: the event loop runs the task made by asyncio.create_task.
\* Nothing in _run_audio_job catches an exception.
RunAudioJob(t) ==
    /\ turns[t].task = "scheduled"
    /\ turns' = [turns EXCEPT ![t] =
           IF SynthesizeAudioCall = "TypeError"
           THEN [@ EXCEPT !.task = "raised"]
           ELSE [@ EXCEPT !.task = "awaiting_tts", !.upstream = @ \cup {"tts"}]]
    /\ UNCHANGED <<AUDIO_JOBS, jobLog, callIn, callOut>>

---------------------------------------------------------------------------
(* The application *)

NoParse == [applied |-> FALSE]

Init ==
    /\ turns = [t \in Turns |-> IdleTurn]
    /\ AUDIO_JOBS = <<>>
    /\ jobLog = <<>>
    /\ callIn = NoParse
    /\ callOut = NoParse

Next ==
    \E t \in Turns :
        \/ Receive(t)
        \/ SttRawReturn(t)
        \/ SttNormReturn(t)
        \/ LlmReturn(t)
        \/ RunAudioJob(t)

Spec == Init /\ [][Next]_vars

---------------------------------------------------------------------------
(* _parse_text_result on its own: every content the generation service    *)
(* may return, up to MaxContentLen tokens                                  *)

\* values a field of the payload may hold
IntentValues == {JAbsent, JNull, JStr(StrTranslateRequest), JStr(StrGreeting), JNum(1)}
TextValues == {JAbsent, JStr(<<>>), JStr(StrXie), JNum(5)}
NotesValues ==
    {JAbsent, JNull, JStr(NoteMocked), JNum(0),
     JList(<<JStr(NoteMocked), JNum(1), JNull>>)}

ParsePayloads ==
    {PayloadOf(i, c, c, n, r) :
        i \in IntentValues, c \in TextValues, n \in NotesValues,
        r \in {JAbsent, JStr(TxShort)}}

\* JSON documents that are not objects
NonObjects == {JNull, JNum(5), JStr(StrXie), JList(<<>>)}

ParseTokens ==
    {TokWs, TokFenceJson, TokFence, TokProse, TokJson(ObjTranslate), TokJson(JList(<<>>))}

ParseContents ==
    {JStr(s) : s \in UNION {[1..n -> ParseTokens] : n \in 0..MaxContentLen}}
    \cup {JStr(<<TokJson(j)>>) : j \in ParsePayloads \cup NonObjects}
    \cup {JStr(<<TokFenceJson, TokWs, TokJson(j), TokWs, TokFence>>) : j \in ParsePayloads}
    \cup {PyNone, JNum(5)}

InitParse ==
    /\ turns = [t \in Turns |-> IdleTurn]
    /\ AUDIO_JOBS = <<>>
    /\ jobLog = <<>>
    /\ callIn \in {[applied |-> FALSE, content |-> c, transcript |-> TxShort] :
                        c \in ParseContents}
    /\ callOut = NoParse

ApplyParse ==
    /\ ~callIn.applied
    /\ callIn' = [callIn EXCEPT !.applied = TRUE]
    /\ callOut' = [applied |-> TRUE,
                    result |-> _parse_text_result(callIn.content, callIn.transcript)]
    /\ UNCHANGED <<turns, AUDIO_JOBS, jobLog>>

NextParse == ApplyParse

SpecParse == InitParse /\ [][NextParse]_vars

---------------------------------------------------------------------------
(* From transcript and generated content to the keywords of the response:  *)
(* run_stt_and_llm after transcription, _build_response_parts, and the     *)
(* SpeechTurnResponse(...) call of the deferred branch                     *)

ShapePayloads ==
    {PayloadOf(i, c, p, n, JAbsent) :
        i \in IntentValues, c \in TextValues \cup {JStr(<<" ">>)}, p \in TextValues,
        n \in {JAbsent, JStr(NoteMocked)}}

ShapeContents ==
    {JStr(<<TokJson(j)>>) : j \in ShapePayloads}
    \cup {JStr(<<TokProse>>), JStr(<<TokJson(JList(<<>>))>>)}

ShapeTranscripts == {TxThanks, TxSayIn, strip(TxStation), TxShort}

\* run_stt_and_llm lines 192-210: the text result for a transcript, where
\* content is what the generation call answers if it is made
InterpretResult(transcript, content) ==
    IF _looks_like_translate_request(transcript)
    THEN HeuristicTextResult(transcript)
    ELSE _parse_text_result(content, transcript).val

\* How the synthesis upstream answers: with audio, with an HTTP error status,
\* or with a body that holds no audio
TtsAnswers == {"audio", "http_error", "no_audio"}

\* What else can end the try block of synthesize_audio: the upstream answers
\* with audio of zero bytes (line 231), writing the WAV file fails (lines
\* 241-245), the cache sweep raises (line 247)
TryOutcomes == TtsAnswers \cup {"empty_audio", "write_error", "sweep_error"}

\* lines 229-252: the try block; answer names how it ends
SynthesizeTry(answer, filename) ==
    IF answer = "audio"
    THEN LET url == JStr(<<"/static/audio/", filename>>)
         IN  Ok([audio |-> [t |-> "obj", format |-> "wav", url |-> url,
                            base64 |-> PyNone],
                 audio_url |-> url, audio_mime |-> JStr(<<"audio/wav">>),
                 tts_error |-> PyNone])
    ELSE Raise(IF answer = "http_error" THEN "HTTPStatusError"
               ELSE IF answer = "write_error" THEN "OSError"
               ELSE IF answer = "sweep_error" THEN "FileNotFoundError"
               ELSE "ValueError")

\* A synthesis that has published the URL before the failure is caught
SynthesizeKeepsUrl(tts_text, answer, filename) ==
    [audio |-> PyNone, audio_url |-> JStr(<<"/static/audio/", filename>>),
     audio_mime |-> PyNone,
     tts_error |-> IF tts_text = <<>> \/ answer = "audio" THEN PyNone
                   ELSE JStr(<<SynthesizeTry(answer, filename).exc>>)]

\* SpeechTurnService.synthesize_audio lines 221-258, writing the file
\* filename when the upstream answers with audio; every failure inside the
\* try block becomes tts_error (except Exception, lines 254-255)
synthesize_audio(tts_text, answer, filename) ==
    LET attempt == SynthesizeTry(answer, filename)
    IN  IF tts_text = <<>>
        THEN [audio |-> PyNone, audio_url |-> PyNone, audio_mime |-> PyNone,
              tts_error |-> PyNone]
        ELSE IF attempt.raised
        THEN [audio |-> PyNone, audio_url |-> PyNone, audio_mime |-> PyNone,
              tts_error |-> JStr(<<attempt.exc>>)]
        ELSE attempt.val

\* main.py lines 677-696: the keywords of the response built on the inline
\* path from what synthesize_audio returned
InlineResponseKwargs(transcript, text_result, parts, synth) ==
    [assistant_text |-> parts.tts_text, source_lang |-> "en", target_lang |-> "zh",
     scenario |-> "restaurant", transcript |-> transcript,
     normalized_request |-> text_result.normalized_request,
     intent |-> text_result.intent, chinese |-> JStr(parts.chinese),
     pinyin |-> JStr(parts.pinyin), notes |-> parts.notes,
     audio |-> synth.audio, audio_url |-> synth.audio_url,
     audio_base64 |-> IF IsNone(synth.audio) THEN PyNone ELSE synth.audio.base64,
     audio_mime |-> synth.audio_mime, audio_job_id |-> PyNone,
     audio_pending |-> FALSE, tts_error |-> synth.tts_error,
     analysis |-> SpeechTurnAnalysis]

\* SpeechTurnService.process lines 160-177: the keywords of its response
ProcessResponseKwargs(transcript, text_result, parts, synth) ==
    [assistant_text |-> parts.tts_text, source_lang |-> "en", target_lang |-> "zh",
     scenario |-> "restaurant", transcript |-> transcript,
     normalized_request |-> text_result.normalized_request,
     intent |-> text_result.intent, chinese |-> JStr(text_result.chinese),
     pinyin |-> JStr(text_result.pinyin), notes |-> parts.notes,
     audio |-> synth.audio, audio_url |-> synth.audio_url,
     audio_base64 |-> IF IsNone(synth.audio) THEN PyNone ELSE synth.audio.base64,
     audio_mime |-> synth.audio_mime, tts_error |-> synth.tts_error,
     analysis |-> SpeechTurnAnalysis]

InitShape ==
    /\ turns = [t \in Turns |-> IdleTurn]
    /\ AUDIO_JOBS = <<>>
    /\ jobLog = <<>>
    /\ callIn \in {[applied |-> FALSE, content |-> c, transcript |-> tr, tts |-> a] :
                        c \in ShapeContents, tr \in ShapeTranscripts,
                        a \in TtsAnswers}
    /\ callOut = NoParse

ApplyShape ==
    /\ ~callIn.applied
    /\ callIn' = [callIn EXCEPT !.applied = TRUE]
    /\ LET text_result == InterpretResult(callIn.transcript, callIn.content)
           parts == _build_response_parts(callIn.transcript, text_result)
           kwargs == DeferredResponseKwargs(callIn.transcript, text_result, parts,
                                            NewJobId)
           synth == synthesize_audio(parts.tts_text, callIn.tts, "a.wav")
           inline == InlineResponseKwargs(callIn.transcript, text_result, parts, synth)
           process == ProcessResponseKwargs(callIn.transcript, text_result, parts,
                                            synth)
       IN  callOut' = [applied |-> TRUE, text_result |-> text_result,
                       generated |-> ~_looks_like_translate_request(callIn.transcript),
                       after |-> TextResultAfterShaping(text_result),
                       parts |-> parts, kwargs |-> kwargs,
                       built |-> SpeechTurnResponse(kwargs),
                       inline |-> inline, process |-> process,
                       processed |-> SpeechTurnResponse(process)]
    /\ UNCHANGED <<turns, AUDIO_JOBS, jobLog>>

NextShape == ApplyShape

SpecShape == InitShape /\ [][NextShape]_vars

---------------------------------------------------------------------------
(* GeminiSpeechTurnTextClient.generate with its backoff wait made visible. *)
(* LlmReturn takes "429, time.sleep(wait), next attempt" as one step; here *)
(* the turn stays at pc = "backoff" while time.sleep runs.  time.sleep does *)
(* not return control to the event loop: while a turn is inside it, the    *)
(* one thread that runs every handler and every task runs nothing else.    *)

MaxAttempts == 3        \* for attempt in range(3)
BackoffBaseMs == 500    \* wait = 0.5 * (2**attempt)

\* the event loop thread is not inside a time.sleep
LoopFree == \A u \in Turns : turns[u].pc # "backoff"

\* A loop that makes one attempt more
OneMoreAttempt(attempt) == attempt + 1 < MaxAttempts + 1

\* line 82: whether the loop has another attempt after this one
HasNextAttempt(attempt) == attempt + 1 < MaxAttempts

\* lines 83-113: the answer to one attempt arrives
LlmAnswer(t) ==
    /\ LoopFree
    /\ turns[t].pc = "llm"
    /\ \E resp \in GenResponses :
         LET frame == [turns[t] EXCEPT !.answer = AnswerClass(resp)]
         IN  IF frame.answer = "429"
             THEN /\ turns' = [turns EXCEPT ![t] =
                         [frame EXCEPT !.pc = "backoff",
                                       !.wait = BackoffBaseMs * (2 ^ frame.attempt)]]
                  /\ UNCHANGED <<AUDIO_JOBS, jobLog>>
             ELSE IF frame.answer \in {"error", "notext"}
             THEN /\ turns' = [turns EXCEPT ![t] = GenerateFailure(frame)]
                  /\ UNCHANGED <<AUDIO_JOBS, jobLog>>
             ELSE AfterInterpret(t, frame, frame.transcript,
                                 _parse_text_result(resp.text, frame.transcript).val)
    /\ UNCHANGED <<callIn, callOut>>

\* lines 94-95 and 115-116: time.sleep returns; `continue` starts the next
\* attempt, or ends the loop, after which line 116 raises
BackoffEnd(t) ==
    /\ turns[t].pc = "backoff"
    /\ turns' = [turns EXCEPT ![t] =
           IF HasNextAttempt(turns[t].attempt)
           THEN [@ EXCEPT !.pc = "llm", !.attempt = @ + 1, !.wait = 0]
           ELSE [Finished(@, 500, "ValueError") EXCEPT !.wait = 0]]
    /\ UNCHANGED <<AUDIO_JOBS, jobLog, callIn, callOut>>

\* every turn in flight has made its first generation call
InitBackoff ==
    /\ turns \in [Turns -> {[IdleTurn EXCEPT !.pc = "llm", !.user_id = u,
                                              !.auth = "authorized",
                                              !.audioLen = MAX_AUDIO_BYTES,
                                              !.transcript = strip(TxStation),
                                              !.upstream = {"stt", "llm"}] :
                                 u \in Users}]
    /\ AUDIO_JOBS = <<>>
    /\ jobLog = <<>>
    /\ callIn = NoParse
    /\ callOut = NoParse

NextBackoff ==
    \E t \in Turns :
        \/ LlmAnswer(t)
        \/ BackoffEnd(t)
        \/ LoopFree /\ RunAudioJob(t)

SpecBackoff == InitBackoff /\ [][NextBackoff]_vars

---------------------------------------------------------------------------
(* main.py: GET /static/audio/{filename}?token=..., and the URL that       *)
(* synthesize_audio publishes.  Time is counted in minutes.                *)

AUDIO_TOKEN_TTL_MINUTES == 10
MaxClock == 11

\* uuid4().hex + ".wav"
AudioFiles == {"a.wav", "b.wav"}

\* create_audio_token(filename), called at time now
create_audio_token(filename, now) ==
    [t |-> "jwt", signed |-> TRUE, type |-> "audio", file |-> filename,
     exp |-> now + AUDIO_TOKEN_TTL_MINUTES]

\* The token query parameter of a request: missing, or a JWT.  signed says
\* whether its signature verifies under the audio token secret (an access
\* token's does when AUDIO_TOKEN_SECRET is unset, security.py 44-48).
AudioTokens ==
    {PyNone}
    \cup {[create_audio_token(f, iat) EXCEPT !.signed = sg, !.type = ty] :
             f \in AudioFiles, iat \in 0..1, sg \in BOOLEAN,
             ty \in {"audio", "access", "refresh"}}

\* jwt.decode(token, secret, algorithms=["HS256"]): the signature and the exp
\* claim are verified; a token is expired from the instant exp on
_decode_jwt(token, now) ==
    IF ~token.signed THEN Raise("InvalidSignatureError")
    ELSE IF token.exp <= now THEN Raise("ExpiredSignatureError")
    ELSE Ok(token)

\* A verification that does not compare the file claim
VerifyAnyFile(token, filename, now) ==
    LET payload == _decode_jwt(token, now)
    IN  IF payload.raised THEN Raise("HTTP401")
        ELSE IF payload.val.type # "audio" THEN Raise("HTTP401")
        ELSE Ok(PyNone)

\* verify_audio_token(token, filename), called at time now
verify_audio_token(token, filename, now) ==
    LET payload == _decode_jwt(token, now)
    IN  IF payload.raised THEN Raise("HTTP401")
        ELSE IF payload.val.type # "audio" \/ payload.val.file # filename
        THEN Raise("HTTP401")
        ELSE Ok(PyNone)

\* audio_file(filename, token) with the files now in AUDIO_DIR: the status of
\* the answer.  token is a required query parameter: without it FastAPI
\* answers 422 before the function runs.
audio_file(filename, token, files, now) ==
    IF IsNone(token) THEN 422
    ELSE IF verify_audio_token(token, filename, now).raised THEN 401
    ELSE IF filename \notin files THEN 404
    ELSE 200

\* synthesize_audio lines 238-248: the file it writes and the URL it
\* publishes for it, f"{base_url}/static/audio/{filename}", as the request a
\* client makes by fetching that URL
PublishedAudioRequest(filename) == [filename |-> filename, token |-> PyNone]

InitAudio ==
    /\ turns = [t \in Turns |-> IdleTurn]
    /\ AUDIO_JOBS = <<>>
    /\ jobLog = <<>>
    /\ callIn \in {[applied |-> FALSE, filename |-> f, token |-> tk, files |-> fs,
                     now |-> now] :
                        f \in AudioFiles, tk \in AudioTokens,
                        fs \in SUBSET AudioFiles, now \in 0..MaxClock}
    /\ callOut = NoParse

ApplyAudio ==
    /\ ~callIn.applied
    /\ callIn' = [callIn EXCEPT !.applied = TRUE]
    /\ callOut' = [applied |-> TRUE,
                   status |-> audio_file(callIn.filename, callIn.token, callIn.files,
                                         callIn.now)]
    /\ UNCHANGED <<turns, AUDIO_JOBS, jobLog>>

NextAudio == ApplyAudio

SpecAudio == InitAudio /\ [][NextAudio]_vars

---------------------------------------------------------------------------
(* main.py: RateLimiter.  callOut holds rate_limiter._requests, callIn the  *)
(* clock and the history of the calls of check: which key, at what time,   *)
(* admitted or not.  Limit and window are scaled down from 10 per 60 s.    *)

MaxNow == 4
MaxChecks == 5
RateLimit == 2
RateWindow == 2

\* _client_key: the host of the client and the endpoint's suffix
ClientKeys == {"10.0.0.1:speech_turn", "10.0.0.2:speech_turn"}

\* A limiter that admits a request while the window holds `limit` requests
CheckAdmitsOneMore(requests, key, limit, window_seconds, now) ==
    LET window_start == now - window_seconds
        kept == IF key \in DOMAIN requests THEN requests[key] ELSE <<>>
        timestamps == SelectSeq(kept, LAMBDA t : t >= window_start)
    IN  IF Len(timestamps) > limit
        THEN [raised |-> TRUE, requests |-> requests]
        ELSE [raised |-> FALSE,
              requests |-> (key :> Append(timestamps, now)) @@ requests]

\* lines 87-94: RateLimiter.check, raised standing for HTTPException(429)
check(requests, key, limit, window_seconds, now) ==
    LET window_start == now - window_seconds
        kept == IF key \in DOMAIN requests THEN requests[key] ELSE <<>>
        timestamps == SelectSeq(kept, LAMBDA t : t >= window_start)
    IN  IF Len(timestamps) >= limit
        THEN [raised |-> TRUE, requests |-> requests]
        ELSE [raised |-> FALSE,
              requests |-> (key :> Append(timestamps, now)) @@ requests]

InitLimiter ==
    /\ turns = [t \in Turns |-> IdleTurn]
    /\ AUDIO_JOBS = <<>>
    /\ jobLog = <<>>
    /\ callIn = [now |-> 0, history |-> <<>>]
    /\ callOut = <<>>

\* time.time() moves on
Tick ==
    /\ callIn.now < MaxNow
    /\ callIn' = [callIn EXCEPT !.now = @ + 1]
    /\ UNCHANGED <<turns, AUDIO_JOBS, jobLog, callOut>>

\* lines 711 and 737: a request of the client calls rate_limiter.check
CheckRequest(key) ==
    /\ Len(callIn.history) < MaxChecks
    /\ LET r == check(callOut, key, RateLimit, RateWindow, callIn.now)
       IN  /\ callOut' = r.requests
           /\ callIn' = [callIn EXCEPT !.history =
                             Append(@, [key |-> key, at |-> callIn.now,
                                        admitted |-> ~r.raised])]
    /\ UNCHANGED <<turns, AUDIO_JOBS, jobLog>>

NextLimiter ==
    \/ Tick
    \/ \E key \in ClientKeys : CheckRequest(key)

SpecLimiter == InitLimiter /\ [][NextLimiter]_vars

---------------------------------------------------------------------------
(* security.py: the kinds of token and REFRESH_TOKEN_STORE, with the       *)
(* endpoints of main.py that issue, rotate and revoke.  callOut is          *)
(* REFRESH_TOKEN_STORE, as jti -> expires_at; callIn holds the clock, the   *)
(* configured secrets, every token handed out so far, the jti that were     *)
(* rotated, the jti of the refresh tokens that were presented to logout,    *)
(* and the outcome of the last request.                                     *)
(* Lifetimes are scaled down to a few ticks.                                *)

MaxIssued == 2
AccessTtl == 1
RefreshTtl == 2
AudioTtl == 1
MaxTokenClock == RefreshTtl + 1

\* The secrets the deployment may configure: REFRESH_TOKEN_SECRET may or may
\* not differ from ACCESS_TOKEN_SECRET, AUDIO_TOKEN_SECRET may be unset
SecretConfigs ==
    {[access |-> "k1", refresh |-> r, audio |-> a] :
        r \in {"k1", "k2"}, a \in {"", "k3"}}

\* _audio_token_secret, lines 44-48
AudioSecretOf(cfg) == IF cfg.audio # "" THEN cfg.audio ELSE cfg.access

\* A string that is no JWT signed with any configured secret
GarbageToken ==
    [t |-> "jwt", type |-> "none", key |-> "forged", jti |-> 0, exp |-> 0, file |-> ""]

\* jwt.decode(token, secret, algorithms=["HS256"]) with the secret given
DecodeWith(token, secret, now) ==
    IF token.key # secret THEN Raise("InvalidSignatureError")
    ELSE IF token.exp <= now THEN Raise("ExpiredSignatureError")
    ELSE Ok(token)

\* issue_tokens: the store after it and the two tokens it returns; jti stands
\* for uuid4().hex
issue_tokens(store, cfg, now, jti) ==
    [store |-> (jti :> (now + RefreshTtl)) @@ store,
     access_token |-> [t |-> "jwt", type |-> "access", key |-> cfg.access, jti |-> 0,
                       exp |-> now + AccessTtl, file |-> ""],
     refresh_token |-> [t |-> "jwt", type |-> "refresh", key |-> cfg.refresh, jti |-> jti,
                        exp |-> now + RefreshTtl, file |-> ""]]

\* REFRESH_TOKEN_STORE.pop(jti, None)
PopJti(store, jti) == [j \in DOMAIN store \ {jti} |-> store[j]]

\* A rotation that leaves the presented token in the store
RotateKeepsToken(store, token, cfg, now, new_jti) ==
    LET payload == DecodeWith(token, cfg.refresh, now)
    IN  IF payload.raised
        THEN [raised |-> TRUE, exc |-> payload.exc, store |-> store, tokens |-> {}]
        ELSE IF token.type # "refresh" \/ token.jti = 0 \/ token.jti \notin DOMAIN store
        THEN [raised |-> TRUE, exc |-> "HTTP401", store |-> store, tokens |-> {}]
        ELSE LET issued == issue_tokens(store, cfg, now, new_jti)
             IN  [raised |-> FALSE, exc |-> "", store |-> issued.store,
                  tokens |-> {issued.access_token, issued.refresh_token}]

\* rotate_refresh_token, lines 156-173: jwt.PyJWTError is not caught
rotate_refresh_token(store, token, cfg, now, new_jti) ==
    LET payload == DecodeWith(token, cfg.refresh, now)
    IN  IF payload.raised
        THEN [raised |-> TRUE, exc |-> payload.exc, store |-> store, tokens |-> {}]
        ELSE IF payload.val.type # "refresh"
        THEN [raised |-> TRUE, exc |-> "HTTP401", store |-> store, tokens |-> {}]
        ELSE IF payload.val.jti = 0 \/ payload.val.jti \notin DOMAIN store
        THEN [raised |-> TRUE, exc |-> "HTTP401", store |-> store, tokens |-> {}]
        ELSE IF store[payload.val.jti] < now
        THEN [raised |-> TRUE, exc |-> "HTTP401",
              store |-> PopJti(store, payload.val.jti), tokens |-> {}]
        ELSE LET issued == issue_tokens(PopJti(store, payload.val.jti), cfg, now,
                                        new_jti)
             IN  [raised |-> FALSE, exc |-> "", store |-> issued.store,
                  tokens |-> {issued.access_token, issued.refresh_token}]

\* A logout that forgets to remove the jti
RevokeNothing(store, token, cfg, now) == store

\* revoke_refresh_token, lines 176-184: the store after it
revoke_refresh_token(store, token, cfg, now) ==
    LET payload == DecodeWith(token, cfg.refresh, now)
    IN  IF payload.raised THEN store
        ELSE IF payload.val.jti # 0 THEN PopJti(store, payload.val.jti)
        ELSE store

\* An API dependency that takes any token signed with the access secret
AcceptAnyType(token, cfg, now) ==
    ~DecodeWith(token, cfg.access, now).raised

\* get_auth_context on the bearer token of a request: whether it returns
BearerAccepted(token, cfg, now) ==
    LET payload == DecodeWith(token, cfg.access, now)
    IN  ~payload.raised /\ payload.val.type = "access"

\* verify_audio_token(token, filename): whether it returns
AudioAccepted(token, filename, cfg, now) ==
    LET payload == DecodeWith(token, AudioSecretOf(cfg), now)
    IN  ~payload.raised /\ payload.val.type = "audio" /\ payload.val.file = filename

\* What a client can present: nothing, a string that is no token, or any
\* token it was handed
Presentable == {PyNone, GarbageToken} \cup callIn.tokens

NoRequest ==
    [op |-> "none", presented |-> "none", status |-> 0, issued |-> FALSE,
     rotated_before |-> FALSE, revoked_before |-> FALSE,
     in_store_before |-> FALSE, store_same |-> TRUE]

InitTokens ==
    /\ turns = [t \in Turns |-> IdleTurn]
    /\ AUDIO_JOBS = <<>>
    /\ jobLog = <<>>
    /\ callIn \in {[now |-> 0, cfg |-> c, tokens |-> {}, next_jti |-> 1,
                     rotated |-> {}, revoked |-> {}, last |-> NoRequest] :
                        c \in SecretConfigs}
    /\ callOut = <<>>

\* _now() moves on
TokenTick ==
    /\ callIn.now < MaxTokenClock
    /\ callIn' = [callIn EXCEPT !.now = @ + 1]
    /\ UNCHANGED <<turns, AUDIO_JOBS, jobLog, callOut>>

\* POST /auth/login with the right password
login ==
    /\ callIn.next_jti <= MaxIssued
    /\ LET issued == issue_tokens(callOut, callIn.cfg, callIn.now, callIn.next_jti)
       IN  /\ callOut' = issued.store
           /\ callIn' = [callIn EXCEPT
                  !.tokens = @ \cup {issued.access_token, issued.refresh_token},
                  !.next_jti = @ + 1,
                  !.last = [NoRequest EXCEPT !.op = "login", !.status = 200,
                                             !.issued = TRUE, !.store_same = FALSE]]
    /\ UNCHANGED <<turns, AUDIO_JOBS, jobLog>>

\* POST /auth/refresh presenting token, past the rate limiter: 401 without a
\* token or on AuthError, 500 on the exception nothing catches
refresh(token) ==
    /\ LET r == IF IsNone(token)
                THEN [raised |-> TRUE, exc |-> "HTTP401", store |-> callOut,
                      tokens |-> {}]
                ELSE rotate_refresh_token(callOut, token, callIn.cfg, callIn.now,
                                          callIn.next_jti)
           jti == IF IsNone(token) THEN 0 ELSE token.jti
       IN  /\ r.raised \/ callIn.next_jti <= MaxIssued
           /\ callOut' = r.store
           /\ callIn' = [callIn EXCEPT
                  !.tokens = @ \cup r.tokens,
                  !.next_jti = IF r.raised THEN @ ELSE @ + 1,
                  !.rotated = IF r.raised THEN @ ELSE @ \cup {jti},
                  !.last = [op |-> "refresh",
                            presented |-> IF IsNone(token) THEN "none" ELSE token.type,
                            status |-> IF ~r.raised THEN 200
                                       ELSE IF r.exc = "HTTP401" THEN 401 ELSE 500,
                            issued |-> r.tokens # {},
                            rotated_before |-> jti \in callIn.rotated,
                            revoked_before |-> jti \in callIn.revoked,
                            in_store_before |-> jti \in DOMAIN callOut,
                            store_same |-> r.store = callOut]]
    /\ UNCHANGED <<turns, AUDIO_JOBS, jobLog>>

\* POST /auth/logout presenting token
logout(token) ==
    /\ LET store == IF IsNone(token) THEN callOut
                    ELSE revoke_refresh_token(callOut, token, callIn.cfg, callIn.now)
           jti == IF IsNone(token) THEN 0 ELSE token.jti
       IN  /\ callOut' = store
           /\ callIn' = [callIn EXCEPT
                  !.revoked = IF jti = 0 THEN @ ELSE @ \cup {jti},
                  !.last = [op |-> "logout",
                            presented |-> IF IsNone(token) THEN "none" ELSE token.type,
                            status |-> 200, issued |-> FALSE,
                            rotated_before |-> jti \in callIn.rotated,
                            revoked_before |-> jti \in callIn.revoked,
                            in_store_before |-> jti \in DOMAIN callOut,
                            store_same |-> store = callOut]]
    /\ UNCHANGED <<turns, AUDIO_JOBS, jobLog>>

NextTokens ==
    \/ TokenTick
    \/ login
    \/ \E token \in Presentable : refresh(token)
    \/ \E token \in Presentable : logout(token)

SpecTokens == InitTokens /\ [][NextTokens]_vars

\* create_audio_token(filename) signed with the configured audio secret
MintAudioToken(cfg, filename, now) ==
    [t |-> "jwt", type |-> "audio", key |-> AudioSecretOf(cfg), jti |-> 0,
     exp |-> now + AudioTtl, file |-> filename]

\* Every token the server hands out under cfg at time iat, and one that is
\* no token
MintedTokens(cfg, iat) ==
    {issue_tokens(<<>>, cfg, iat, 1).access_token,
     issue_tokens(<<>>, cfg, iat, 1).refresh_token, GarbageToken}
    \cup {MintAudioToken(cfg, f, iat) : f \in AudioFiles}

\* One token presented to each of the three verifiers at time now; the
\* refresh store holds what issue_tokens left in it
InitVerifiers ==
    /\ turns = [t \in Turns |-> IdleTurn]
    /\ AUDIO_JOBS = <<>>
    /\ jobLog = <<>>
    /\ \E c \in SecretConfigs :
           callIn \in {[applied |-> FALSE, cfg |-> c, token |-> tk, filename |-> f,
                        now |-> now] :
                           tk \in MintedTokens(c, 0), f \in AudioFiles,
                           now \in 0..MaxTokenClock}
    /\ callOut = NoParse

ApplyVerifiers ==
    /\ ~callIn.applied
    /\ callIn' = [callIn EXCEPT !.applied = TRUE]
    /\ callOut' =
           [applied |-> TRUE,
            api |-> BearerAccepted(callIn.token, callIn.cfg, callIn.now),
            rotation |-> ~rotate_refresh_token(issue_tokens(<<>>, callIn.cfg, 0, 1).store,
                                               callIn.token, callIn.cfg, callIn.now,
                                               2).raised,
            audio |-> AudioAccepted(callIn.token, callIn.filename, callIn.cfg,
                                    callIn.now)]
    /\ UNCHANGED <<turns, AUDIO_JOBS, jobLog>>

SpecVerifiers == InitVerifiers /\ [][ApplyVerifiers]_vars

---------------------------------------------------------------------------
(* services/gemini_stt.py: GeminiSTTClient.transcribe on its own, with the *)
(* upstream calls it makes, followed by the one call of the synthesis      *)
(* client.  calls lists the upstream calls in the order they are made.     *)

\* lines 127-129: if self._needs_normalization(raw): norm = await
\* self.normalize_transcript(raw)
NormalizerStage(transcript, resp) ==
    IF _needs_normalization(transcript)
    THEN LET norm == normalize_transcript(transcript, resp)
         IN  [raised |-> norm.raised, exc |-> norm.exc, val |-> norm.val,
              calls |-> <<"normalize_transcript">>]
    ELSE [raised |-> FALSE, exc |-> "", val |-> transcript, calls |-> <<>>]

\* A client that repeats the raw transcription call once after a failure
TranscribeWithRetry(raw_resp, norm_resp) ==
    LET raw == transcribe_raw(raw_resp)
        stage == NormalizerStage(raw.val, norm_resp)
    IN  IF raw.raised
        THEN [raised |-> TRUE, exc |-> raw.exc, val |-> PyNone,
              calls |-> <<"transcribe_raw", "transcribe_raw">>]
        ELSE [stage EXCEPT !.calls = <<"transcribe_raw">> \o @]

\* A stage that sends every transcript to the normalization call
AlwaysNormalize(raw_resp, norm_resp) ==
    LET raw == transcribe_raw(raw_resp)
        norm == normalize_transcript(raw.val, norm_resp)
    IN  IF raw.raised
        THEN [raised |-> TRUE, exc |-> raw.exc, val |-> PyNone,
              calls |-> <<"transcribe_raw">>]
        ELSE [raised |-> norm.raised, exc |-> norm.exc, val |-> norm.val,
              calls |-> <<"transcribe_raw", "normalize_transcript">>]

\* lines 125-130
transcribe(raw_resp, norm_resp) ==
    LET raw == transcribe_raw(raw_resp)
        stage == NormalizerStage(raw.val, norm_resp)
    IN  IF raw.raised
        THEN [raised |-> TRUE, exc |-> raw.exc, val |-> PyNone,
              calls |-> <<"transcribe_raw">>]
        ELSE [stage EXCEPT !.calls = <<"transcribe_raw">> \o @]

\* gemini_tts.py lines 57-68, speech_turn.py lines 228-230 and 254-255: one
\* post inside the try block of synthesize_audio, whose failure is caught
SynthesisCalls(tts_text, answer) ==
    IF tts_text = <<>> THEN <<>> ELSE <<"synthesize">>

\* upstream answers to the two transcription calls, a whitespace-only text
\* and an answer without text included
SttAnswers ==
    SttRawResponses \cup SttNormResponses
    \cup {UpstreamNoText, UpstreamText(<<" ">>), UpstreamText(TxShort)}

InitStt ==
    /\ turns = [t \in Turns |-> IdleTurn]
    /\ AUDIO_JOBS = <<>>
    /\ jobLog = <<>>
    /\ callIn \in {[applied |-> FALSE, raw |-> r, norm |-> n, again |-> a, tts |-> s] :
                        r \in SttAnswers, n \in SttAnswers, a \in SttAnswers,
                        s \in TtsAnswers}
    /\ callOut = NoParse

\* one call of transcribe; then, when it returned a transcript, the
\* normalizer stage once more on what it returned, and the synthesis of the
\* spoken fallback for it
ApplyStt ==
    /\ ~callIn.applied
    /\ callIn' = [callIn EXCEPT !.applied = TRUE]
    /\ LET result == transcribe(callIn.raw, callIn.norm)
       IN  callOut' = [applied |-> TRUE, result |-> result,
                       again |-> IF result.raised THEN result
                                 ELSE NormalizerStage(result.val, callIn.again),
                       synthesis |-> IF result.raised THEN <<>>
                                     ELSE SynthesisCalls(PrefixIHeard \o result.val,
                                                         callIn.tts)]
    /\ UNCHANGED <<turns, AUDIO_JOBS, jobLog>>

SpecStt == InitStt /\ [][ApplyStt]_vars

---------------------------------------------------------------------------
(* services/speech_turn.py: the audio directory, the file a synthesis       *)
(* writes to it and the sweep that follows the write.  A directory is a     *)
(* function from names to entries; age is now - st_mtime in seconds.  The   *)
(* directory is in the system's temporary directory (main.py 62), so other  *)
(* processes delete from it too: race says when, relative to this sweep,   *)
(* an entry is deleted by somebody else.                                    *)

TTL_SECONDS == 900

\* os.scandir: the order in which the entries are visited
ScanOrder == <<"a.wav", "b.wav", "new.wav", "sub">>

\* what the directory can hold when synthesize_audio is called
CacheDirs ==
    {[n \in names |-> IF n = "sub" THEN [kind |-> "dir", age |-> TTL_SECONDS + 1,
                                          race |-> "none"]
                      ELSE f[n]] :
        names \in SUBSET {"a.wav", "b.wav", "sub"},
        f \in [{"a.wav", "b.wav"} ->
                 {[kind |-> "file", age |-> a, race |-> r] :
                      a \in {TTL_SECONDS, TTL_SECONDS + 1},
                      r \in {"none", "before_stat", "before_remove"}}]}

\* lines 264-271: the loop over the entries.  entry.stat() is outside the
\* try block and raises FileNotFoundError for an entry that is gone;
\* os.remove of an entry that is gone raises inside it
RECURSIVE Sweep(_, _, _)
Sweep(names, dir, removed) ==
    IF names = <<>> THEN [raised |-> FALSE, exc |-> "", dir |-> dir, removed |-> removed]
    ELSE LET e == Head(names)
             rest == [n \in DOMAIN dir \ {e} |-> dir[n]]
         IN  IF e \notin DOMAIN dir \/ dir[e].kind # "file"
             THEN Sweep(Tail(names), dir, removed)
             ELSE IF dir[e].race = "before_stat"
             THEN [raised |-> TRUE, exc |-> "FileNotFoundError",
                   dir |-> rest, removed |-> removed]
             ELSE IF dir[e].race = "before_remove"
             THEN Sweep(Tail(names), rest, removed)
             ELSE IF dir[e].age > TTL_SECONDS
             THEN Sweep(Tail(names), rest, removed \cup {e})
             ELSE Sweep(Tail(names), dir, removed)

\* SpeechTurnService._cleanup_old_files (the directory exists: main.py 63)
_cleanup_old_files(dir) == Sweep(ScanOrder, dir, {})

\* the voice form field of a request: the three presets (one in capitals),
\* no label, and a label that is no preset
Voices ==
    {<<"w", "a", "r", "m">>, <<"B", "R", "I", "G", "H", "T">>, <<"d", "e", "e", "p">>,
     <<>>, <<"r", "o", "b", "o", "t">>}

\* main.py lines 72-80: VOICE_NAME_MAP.get((voice or "warm").lower(), "Kore")
_resolve_voice_name(voice) ==
    LET label == lower(IF voice = <<>> THEN <<"w", "a", "r", "m">> ELSE voice)
    IN  IF label = <<"w", "a", "r", "m">> THEN "Kore"
        ELSE IF label = <<"b", "r", "i", "g", "h", "t">> THEN "Leda"
        ELSE IF label = <<"d", "e", "e", "p">> THEN "Puck"
        ELSE "Kore"

\* gemini_tts.py lines 26-52: synthesize(text, target_lang) has no voice
\* parameter; its payload names the prebuilt voice "Kore"
SynthesizePayloadVoice(text) == "Kore"

InitCache ==
    /\ turns = [t \in Turns |-> IdleTurn]
    /\ AUDIO_JOBS = <<>>
    /\ jobLog = <<>>
    /\ callIn \in {[applied |-> FALSE, tts_text |-> tx, answer |-> a, dir |-> d,
                     voice |-> v] :
                        tx \in {<<>>, StrXie},
                        a \in TryOutcomes \ {"sweep_error"}, d \in CacheDirs,
                        v \in Voices}
    /\ callOut = NoParse

\* one call of synthesize_audio for a request with a voice label: the
\* upstream call is made when tts_text is not empty; the file is written and
\* the sweep runs only when the upstream answered with audio and the write
\* succeeded
ApplyCache ==
    /\ ~callIn.applied
    /\ callIn' = [callIn EXCEPT !.applied = TRUE]
    /\ LET writes == callIn.tts_text # <<>> /\ callIn.answer = "audio"
           written == IF writes
                      THEN ("new.wav" :> [kind |-> "file", age |-> 0, race |-> "none"])
                           @@ callIn.dir
                      ELSE callIn.dir
           sweep == IF writes THEN _cleanup_old_files(written)
                    ELSE [raised |-> FALSE, exc |-> "", dir |-> callIn.dir,
                          removed |-> {}]
           outcome == IF sweep.raised THEN "sweep_error" ELSE callIn.answer
       IN  callOut' = [applied |-> TRUE, swept |-> writes, written |-> written,
                       sweep |-> sweep,
                       voice_name |-> _resolve_voice_name(callIn.voice),
                       upstream_voice |-> IF callIn.tts_text = <<>> THEN "none"
                                          ELSE SynthesizePayloadVoice(callIn.tts_text),
                       synth |-> synthesize_audio(callIn.tts_text, outcome, "new.wav")]
    /\ UNCHANGED <<turns, AUDIO_JOBS, jobLog>>

NextCache == ApplyCache

SpecCache == InitCache /\ [][NextCache]_vars

---------------------------------------------------------------------------
(* Properties *)

\* the content is not a JSON object, with or without its code fence
Unparseable(content) ==
    \/ content.t # "str"
    \/ LET loaded == json_loads(SubFences(StripContent(content.v)))
       IN  loaded.raised \/ loaded.val.t # "obj"

\* C1: _parse_text_result returns a result and never raises, whatever the
\* content; when the content is not a JSON object the result has intent
\* unknown, empty chinese and pinyin, and the one note "Unable to parse Gemini
\* response."
C1_ParseNeverRaises ==
    callOut.applied =>
        /\ ~callOut.result.raised
        /\ callOut.result.val.intent \in {"translate_request", "unknown"}
        /\ Unparseable(callIn.content) =>
              /\ callOut.result.val.intent = "unknown"
              /\ callOut.result.val.chinese = <<>>
              /\ callOut.result.val.pinyin = <<>>
              /\ callOut.result.val.notes = <<NoteParseFailed>>

\* C1 witness: prose that is no JSON was parsed into the default result
C1_Witness ==
    /\ callOut.applied
    /\ callIn.content = JStr(<<TokProse>>)
    /\ callOut.result.val.notes = <<NoteParseFailed>>

\* a turn whose handler got as far as one of its two audio paths and ended
OnAudioPath(t) == turns[t].pc = "done" /\ turns[t].path \in {"inline", "deferred"}

\* the turn was answered with a response object
Responded(t) == turns[t].status = 200 /\ ~IsNone(turns[t].response)

\* a field of a response, None when the response does not have it
ResponseField(response, f) == IF f \in DOMAIN response THEN response[f] ELSE PyNone

\* the response carries ready audio: a non-empty url or base64 payload
HasReadyAudio(response) ==
    LET audio == ResponseField(response, "audio")
    IN  ~IsNone(audio) /\ SpeechTurnAudioValid(audio)

\* the response points at a pending job
HasJobPointer(response) ==
    /\ ResponseField(response, "audio_job_id") \in Nat \ {0}
    /\ ResponseField(response, "audio_pending") = TRUE

\* C2: every turn that ends on the inline or the deferred path is answered
\* with a response that carries ready audio or a pending job pointer
C2_ResponseCarriesAudioOrPointer ==
    \A t \in Turns :
        OnAudioPath(t) =>
            /\ Responded(t)
            /\ HasReadyAudio(turns[t].response) \/ HasJobPointer(turns[t].response)

\* C3: an inline turn whose synthesis produced no audio still ends with a
\* response: the text fields are there, tts_error is set, audio is null, and
\* nothing was raised
C3_InlineSynthesisFailureStillResponds ==
    \A t \in Turns :
        (turns[t].pc = "done" /\ turns[t].path = "inline"
            /\ ~(Responded(t) /\ HasReadyAudio(turns[t].response))) =>
            /\ turns[t].error = ""
            /\ Responded(t)
            /\ {"transcript", "intent", "chinese", "pinyin", "notes"}
                   \subseteq DOMAIN turns[t].response
            /\ ~IsNone(ResponseField(turns[t].response, "tts_error"))
            /\ IsNone(ResponseField(turns[t].response, "audio"))

\* C4: a turn whose elapsed time exceeded the budget has a pending job owned by
\* its caller and a scheduled task, and is answered with a response whose audio
\* is null, audio_pending true and audio_job_id the id of that job
C4_DeferredTurnReturnsPointer ==
    \A t \in Turns :
        (turns[t].pc = "done" /\ turns[t].elapsed > SyncBudgetMs) =>
            /\ turns[t].jobId \in DOMAIN AUDIO_JOBS
            /\ AUDIO_JOBS[turns[t].jobId].owner_id = turns[t].user_id
            /\ jobLog[turns[t].jobId][1].after = "pending"
            /\ turns[t].task # "none"
            /\ Responded(t)
            /\ IsNone(ResponseField(turns[t].response, "audio"))
            /\ ResponseField(turns[t].response, "audio_pending") = TRUE
            /\ ResponseField(turns[t].response, "audio_job_id") = turns[t].jobId

\* the background task of the turn has run to its end
TaskEnded(t) == turns[t].task \notin {"none", "scheduled"}

\* C5: once the background task of a deferred turn has run, the owner's poll of
\* the job returns status ready with a non-null audio_url
C5_OwnerPollReturnsReady ==
    \A t \in Turns :
        TaskEnded(t) =>
            LET polled == speech_audio_job(turns[t].jobId, AuthContext(turns[t].user_id))
            IN  /\ polled.status = 200
                /\ polled.payload.status = "ready"
                /\ ~IsNone(polled.payload.audio_url)

\* C6: when the background task of a deferred turn ends, no exception has left
\* it and its job is no longer pending: error with a tts_error, or ready
C6_TaskFailureRecordedInJob ==
    \A t \in Turns :
        TaskEnded(t) =>
            /\ turns[t].task # "raised"
            /\ \/ AUDIO_JOBS[turns[t].jobId].status = "ready"
               \/ /\ AUDIO_JOBS[turns[t].jobId].status = "error"
                  /\ ~IsNone(AUDIO_JOBS[turns[t].jobId].tts_error)

\* C7: every job is written first by the turn that creates it, as pending, and
\* at most once more, by the task of that same turn, from pending to ready or
\* error; nothing else writes it
C7_JobWrittenOnlyByItsTurn ==
    \A j \in DOMAIN jobLog :
        LET log == jobLog[j]
        IN  /\ Len(log) \in {1, 2}
            /\ log[1].kind = "create"
            /\ log[1].before = "absent"
            /\ log[1].after = "pending"
            /\ turns[log[1].by].jobId = j
            /\ AUDIO_JOBS[j].owner_id = turns[log[1].by].user_id
            /\ Len(log) = 2 =>
                  /\ log[2].kind = "task"
                  /\ log[2].by = log[1].by
                  /\ log[2].before = "pending"
                  /\ log[2].after \in {"ready", "error"}

\* C7 witness: two turns were deferred concurrently, each created its own job,
\* and both background tasks have run
C7_Witness ==
    \E t, u \in Turns :
        /\ t # u
        /\ TaskEnded(t) /\ TaskEnded(u)
        /\ turns[t].jobId # turns[u].jobId
        /\ {turns[t].jobId, turns[u].jobId} \subseteq DOMAIN AUDIO_JOBS

\* the job ids a requester may ask for: every id in use and one that is not
PollIds == 1..(MaxTurns + 1)

\* C8: a poll returns the job only to its owner or to an admin; anyone else
\* gets 403 and no payload for an existing job; an unknown id gets 404 for
\* every requester
C8_PollOnlyOwnerOrAdmin ==
    \A auth \in AuthContexts, job_id \in PollIds :
        LET polled == speech_audio_job(job_id, auth)
        IN  IF job_id \notin DOMAIN AUDIO_JOBS
            THEN polled.status = 404 /\ IsNone(polled.payload)
            ELSE IF \/ auth.user_id = AUDIO_JOBS[job_id].owner_id
                    \/ "admin" \in auth.roles
            THEN /\ polled.status = 200
                 /\ polled.payload.status = AUDIO_JOBS[job_id].status
                 /\ polled.payload.audio_url = AUDIO_JOBS[job_id].audio_url
            ELSE polled.status = 403 /\ IsNone(polled.payload)

\* C8 witness: alice's job is refused to bob, returned to alice and to the
\* admin, and another id is unknown to all
C8_Witness ==
    \E job_id \in DOMAIN AUDIO_JOBS :
        /\ AUDIO_JOBS[job_id].owner_id = "alice"
        /\ speech_audio_job(job_id, AuthContext("bob")).status = 403
        /\ speech_audio_job(job_id, AuthContext("alice")).status = 200
        /\ speech_audio_job(job_id, AuthContext("root")).status = 200
        /\ speech_audio_job(job_id + 1, AuthContext("root")).status = 404

\* the turn made no upstream call and has no job
NothingStarted(t) ==
    /\ turns[t].upstream = {}
    /\ turns[t].jobId = 0
    /\ turns[t].task = "none"
    /\ \A j \in DOMAIN jobLog : \A i \in 1..Len(jobLog[j]) : jobLog[j][i].by # t

C10_SizeBoundary ==
    \A t \in Turns :
        (turns[t].pc # "idle" /\ turns[t].auth = "authorized") =>
            /\ turns[t].audioLen = MAX_AUDIO_BYTES => turns[t].status # 413
            /\ turns[t].audioLen = MAX_AUDIO_BYTES + 1 =>
                  turns[t].pc = "done" /\ turns[t].status = 413

\* C11: a text result with intent unknown, from the heuristic, the parser or
\* the parse-failure default, has empty chinese and pinyin, and so have the
\* chinese and pinyin keywords of a response whose intent is unknown
C11_UnknownCarriesNoTranslation ==
    callOut.applied =>
        /\ callOut.text_result.intent = "unknown" =>
              callOut.text_result.chinese = <<>> /\ callOut.text_result.pinyin = <<>>
        /\ callOut.kwargs.intent = "unknown" =>
              /\ callOut.kwargs.chinese = JStr(<<>>)
              /\ callOut.kwargs.pinyin = JStr(<<>>)

\* C11 witness: the model answered with an intent that is not recognised and
\* with a translation, and the result is unknown
C11_Witness ==
    /\ callOut.applied
    /\ callIn.transcript = TxShort
    /\ callIn.content =
           JStr(<<TokJson(PayloadOf(JStr(StrGreeting), JStr(StrXie), JStr(StrXie),
                                    JAbsent, JAbsent))>>)
    /\ callOut.kwargs.intent = "unknown"

\* the note of _build_response_parts is among the notes
MarkedIncomplete(notes) == \E i \in 1..Len(notes) : notes[i] = NoteIncomplete

\* C12: the keywords of a response with intent translate_request have a
\* non-blank chinese and a non-blank pinyin, or the notes say the translation
\* is incomplete
C12_TranslationPresentOrMarked ==
    (callOut.applied /\ callOut.kwargs.intent = "translate_request") =>
        \/ /\ strip(callOut.kwargs.chinese.v) # <<>>
           /\ strip(callOut.kwargs.pinyin.v) # <<>>
        \/ MarkedIncomplete(callOut.kwargs.notes)

\* the handler got as far as a SpeechTurnResponse(...) call
ReachedConstruction(t) == turns[t].pc = "done" /\ turns[t].path = "deferred"

\* C13: the response object the handler builds passes the validators of the
\* response models, so a turn that reached the construction is answered 200
C13_BuiltResponseValidates ==
    \A t \in Turns :
        ReachedConstruction(t) =>
            turns[t].error # "ValidationError" /\ turns[t].status = 200

\* the turn ended because transcription or generation failed upstream
UpstreamFailed(t) ==
    /\ turns[t].pc = "done"
    /\ turns[t].path = ""
    /\ turns[t].error \in {"HTTPStatusError", "ValueError"}

\* C14: a turn whose transcription or generation fails upstream is answered
\* 502, and neither calls synthesis nor creates a job
C14_UpstreamFailureIs502 ==
    \A t \in Turns :
        UpstreamFailed(t) =>
            /\ turns[t].status = 502
            /\ "tts" \notin turns[t].upstream
            /\ turns[t].jobId = 0 /\ turns[t].task = "none"

GoodAudioToken(token, filename, now) ==
    /\ ~IsNone(token)
    /\ token.signed /\ token.type = "audio" /\ token.file = filename
    /\ now < token.exp

\* C16: the file is served only on a signed, unexpired audio token for that
\* very filename; a token for another file, a token of another type, a badly
\* signed or an expired token is answered 401, and a good token for a file
\* that is gone 404
C16_AudioServedOnlyWithItsToken ==
    callOut.applied =>
        /\ callOut.status = 200 <=>
              /\ GoodAudioToken(callIn.token, callIn.filename, callIn.now)
              /\ callIn.filename \in callIn.files
        /\ (~IsNone(callIn.token)
              /\ ~GoodAudioToken(callIn.token, callIn.filename, callIn.now)) =>
              callOut.status = 401
        /\ (GoodAudioToken(callIn.token, callIn.filename, callIn.now)
              /\ callIn.filename \notin callIn.files) =>
              callOut.status = 404

\* C16 witness: a token issued for b.wav was presented for a.wav, which is on
\* disk, before the token expired, and was refused
C16_Witness ==
    /\ callOut.applied
    /\ callIn.filename = "a.wav" /\ "a.wav" \in callIn.files
    /\ callIn.token = create_audio_token("b.wav", 0)
    /\ callIn.now < AUDIO_TOKEN_TTL_MINUTES
    /\ callOut.status = 401

\* C17: the request made from the URL synthesize_audio publishes for a file is
\* served while the file is on disk
C17_PublishedUrlIsServed ==
    (/\ callOut.applied
     /\ callIn.token = PublishedAudioRequest(callIn.filename).token
     /\ callIn.filename \in callIn.files) =>
        callOut.status = 200

\* the analysis is the empty placeholder
IsPlaceholder(analysis) ==
    IsNone(analysis.overall_score) /\ analysis.phoneme_confidence = <<>>

\* C18: the analysis passed to every response, on the deferred path, on the
\* inline path and by SpeechTurnService.process, has overall_score null and an
\* empty phoneme_confidence, and a response that is built keeps it
C18_AnalysisIsPlaceholder ==
    callOut.applied =>
        /\ IsPlaceholder(callOut.kwargs.analysis)
        /\ IsPlaceholder(callOut.inline.analysis)
        /\ IsPlaceholder(callOut.process.analysis)
        /\ ~callOut.processed.raised => IsPlaceholder(callOut.processed.val.analysis)
        /\ ~callOut.built.raised => IsPlaceholder(callOut.built.val.analysis)

\* C18 witness: SpeechTurnService.process built a response with audio
C18_Witness ==
    /\ callOut.applied
    /\ callIn.tts = "audio"
    /\ ~callOut.processed.raised
    /\ ~IsNone(callOut.processed.val.audio)

\* the turn is waiting for the answer to its generation call
AwaitingGeneration(u) == turns[u].pc = "llm"

\* C19: while one turn is on its backoff wait, another turn that is waiting
\* for an upstream answer can take it
C19_BackoffDoesNotBlockOthers ==
    \A t, u \in Turns :
        (t # u /\ turns[t].pc = "backoff" /\ AwaitingGeneration(u)) =>
            ENABLED LlmAnswer(u)

\* one step of generate, from frame a to frame b of the same turn
GenerateStep(a, b) ==
    /\ (a.pc = "llm" /\ b.pc = "backoff") =>
          /\ a.attempt < MaxAttempts
          /\ b.attempt = a.attempt
          /\ b.wait = IF a.attempt = 0 THEN BackoffBaseMs
                      ELSE IF a.attempt = 1 THEN 2 * BackoffBaseMs
                      ELSE 4 * BackoffBaseMs
    /\ (a.pc = "llm" /\ b.pc = "llm") => b = a
    /\ (a.pc = "backoff" /\ b # a) =>
          IF a.attempt < 2
          THEN b.pc = "llm" /\ b.attempt = a.attempt + 1
          ELSE /\ b.pc = "done" /\ b.error = "ValueError"
               /\ b.status # 200 /\ IsNone(b.response)
    /\ (a.pc = "llm" /\ b.pc = "done" /\ b.path = "") =>
          b.error \in {"HTTPStatusError", "ValueError"}

C21_FailureRaisesWithoutRetry ==
    \A t \in Turns :
        turns[t].answer \in {"error", "notext"} =>
            /\ turns[t].pc = "done"
            /\ turns[t].error =
                   (IF turns[t].answer = "error" THEN "HTTPStatusError" ELSE "ValueError")
            /\ turns[t].path = ""
            /\ turns[t].status # 200
            /\ IsNone(turns[t].response)

\* C21 witness: one turn ended on an error status, another on an answer
\* without text
C21_Witness ==
    \E t, u \in Turns :
        /\ turns[t].answer = "error" /\ turns[t].error = "HTTPStatusError"
        /\ turns[u].answer = "notext" /\ turns[u].error = "ValueError"

\* the turn is inside the transcription stage (either call of transcribe)
Transcribing(t) == turns[t].pc \in {"stt_raw", "stt_norm"}

\* the turn has been shaped: the handler chose between inline and deferred
Shaped(t) == turns[t].path # ""

\* the turn has attempted or started synthesis, inline or in its task
SynthesisBegun(t) ==
    \/ turns[t].pc = "tts"
    \/ "tts" \in turns[t].upstream
    \/ turns[t].task # "none"

\* C22: within a turn the generation call starts only after transcription
\* (normalization included) has completed, shaping happens only after the
\* generation call has completed, and synthesis is attempted only after
\* shaping; the turn is never inside two stages at once
C22_StagesInSequence ==
    \A t \in Turns :
        /\ "llm" \in turns[t].upstream =>
               "stt" \in turns[t].upstream /\ ~Transcribing(t)
        /\ Shaped(t) => "stt" \in turns[t].upstream /\ ~Transcribing(t)
                        /\ turns[t].pc # "llm"
        /\ SynthesisBegun(t) => Shaped(t)
        /\ turns[t].task # "none" => turns[t].path = "deferred"

\* C22 witness: a turn went through transcription and generation, was shaped
\* and has its synthesis task scheduled
C22_Witness ==
    \E t \in Turns :
        /\ turns[t].upstream = {"stt", "llm"}
        /\ Shaped(t)
        /\ turns[t].task = "scheduled"

\* the two phrasings of a translation request
TranslationPhrasing(transcript) ==
    LET s == lower(transcript)
    IN  \/ Contains(SubHowDoISay, s)
        \/ (Contains(SubSay, s) /\ Contains(SubSpInChinese, s))

C24_TaskOutlivesRequest ==
    \A t \in Turns :
        (turns[t].path = "deferred" /\ turns[t].pc = "done" /\ TaskEnded(t)) =>
            /\ turns[t].task = "done"
            /\ Len(jobLog[turns[t].jobId]) = 2
            /\ jobLog[turns[t].jobId][2].by = t
            /\ AUDIO_JOBS[turns[t].jobId].status \in {"ready", "error"}

\* C25: a turn that was shaped within the synchronous budget took the inline
\* path, created no job and was answered with audio_pending false and
\* audio_job_id null; a turn has a job only if its elapsed time exceeded the
\* budget
C25_WithinBudgetIsInline ==
    \A t \in Turns :
        /\ (OnAudioPath(t) /\ turns[t].elapsed <= SyncBudgetMs) =>
               /\ turns[t].path = "inline"
               /\ turns[t].jobId = 0
               /\ \A j \in DOMAIN jobLog : \A i \in DOMAIN jobLog[j] : jobLog[j][i].by # t
               /\ Responded(t)
               /\ ResponseField(turns[t].response, "audio_pending") = FALSE
               /\ IsNone(ResponseField(turns[t].response, "audio_job_id"))
        /\ turns[t].jobId # 0 => turns[t].elapsed > SyncBudgetMs

\* C26: a call of synthesize_audio with non-empty tts_text always returns,
\* and returns either audio, audio_url and audio_mime with no tts_error, or
\* none of the three with a non-empty tts_error
C26_SynthesisReturnsAllOrError ==
    (callOut.applied /\ callIn.tts_text # <<>>) =>
        LET r == callOut.synth
        IN  \/ /\ ~IsNone(r.audio) /\ ~IsNone(r.audio_url) /\ ~IsNone(r.audio_mime)
               /\ IsNone(r.tts_error)
            \/ /\ IsNone(r.audio) /\ IsNone(r.audio_url) /\ IsNone(r.audio_mime)
               /\ ~IsNone(r.tts_error)
               /\ Truthy(r.tts_error)

\* C26 witness: writing the WAV file failed and the call returned a tts_error
C26_Witness ==
    /\ callOut.applied
    /\ callIn.tts_text # <<>>
    /\ callIn.answer = "write_error"
    /\ callOut.synth.tts_error = JStr(<<"OSError">>)

\* a regular file of the directory that is older than the TTL
Expired(dir, name) == dir[name].kind = "file" /\ dir[name].age > TTL_SECONDS

\* C28: the sweep that follows a write removes only regular files older than
\* the TTL, never the file just written, and leaves no file older than the
\* TTL behind
C28_SweepRemovesExactlyExpired ==
    (callOut.applied /\ callOut.swept) =>
        /\ \A name \in callOut.sweep.removed : Expired(callOut.written, name)
        /\ "new.wav" \in DOMAIN callOut.sweep.dir
        /\ \A name \in DOMAIN callOut.written :
               Expired(callOut.written, name) => name \notin DOMAIN callOut.sweep.dir

\* C29: when an entry disappears between the listing and its age check or
\* its delete, the sweep does not fail, and the synthesis whose file was
\* written returns its audio, not a tts_error
C29_SweepToleratesVanishedEntry ==
    (/\ callOut.applied /\ callOut.swept
     /\ \E name \in DOMAIN callIn.dir : callIn.dir[name].race # "none") =>
        /\ ~callOut.sweep.raised
        /\ IsNone(callOut.synth.tts_error)
        /\ ~IsNone(callOut.synth.audio_url)

ObjectsIn(content) ==
    {i \in 1..Len(content.v) :
        content.v[i].tok = "json" /\ content.v[i].val.t = "obj"}

\* the content holds exactly one JSON value, an object, inside code fences,
\* prose or whitespace
EmbedsOneObject(content) ==
    /\ content.t = "str"
    /\ Cardinality(ObjectsIn(content)) = 1
    /\ \A i \in 1..Len(content.v) : content.v[i].tok = "json" => i \in ObjectsIn(content)

\* C30: a content that holds one JSON object, wrapped in a code fence or
\* surrounded by other text, is parsed into the fields of that object and not
\* into the parse-failure default
C30_EmbeddedObjectIsParsed ==
    (callOut.applied /\ EmbedsOneObject(callIn.content)) =>
        LET i == CHOOSE i \in ObjectsIn(callIn.content) : TRUE
            bare == JStr(<<callIn.content.v[i]>>)
        IN  /\ callOut.result.val = _parse_text_result(bare, callIn.transcript).val
            /\ callOut.result.val # ParseFailureResult(callIn.transcript)

\* the voice identifier of a preset label
PresetVoice(voice) ==
    LET label == lower(voice)
    IN  IF label = <<"b", "r", "i", "g", "h", "t">> THEN "Leda"
        ELSE IF label = <<"d", "e", "e", "p">> THEN "Puck"
        ELSE "Kore"

\* C31: the upstream synthesis call of a turn names the voice mapped from
\* the requested preset, without regard to letter case, and Kore for an
\* empty or unknown label
C31_UpstreamVoiceIsPreset ==
    (callOut.applied /\ callIn.tts_text # <<>>) =>
        callOut.upstream_voice = PresetVoice(callIn.voice)

\* the raw answer carries a transcript that the heuristic does not flag:
\* more than two tokens, none of the garbled substrings
CleanRaw(resp) ==
    /\ resp.http = "ok"
    /\ Truthy(resp.text)
    /\ SplitCount(strip(resp.text.v)) > 2
    /\ \A x \in {SubAndChinese, SubStay, SubBargainChip} :
           ~Contains(x, lower(strip(resp.text.v)))

C33_TranscriptNeverEmpty ==
    (callOut.applied /\ ~callOut.result.raised) =>
        /\ callOut.result.val # <<>>
        /\ (/\ callOut.result.calls = <<"transcribe_raw", "normalize_transcript">>
            /\ ~Truthy(callIn.norm.text)) =>
               callOut.result.val = strip(callIn.raw.text.v)

\* C34: transcribe makes the raw call once, and the normalization call once
\* more exactly when the raw call returned a transcript that is flagged; a
\* failed call is not repeated; the synthesis client is called at most once
C34_OneCallPerStage ==
    callOut.applied =>
        LET rawOk == callIn.raw.http = "ok" /\ Truthy(callIn.raw.text)
        IN  /\ callOut.result.calls =
                   (IF rawOk /\ ~CleanRaw(callIn.raw)
                    THEN <<"transcribe_raw", "normalize_transcript">>
                    ELSE <<"transcribe_raw">>)
            /\ callOut.result.raised => Len(callOut.result.calls) \in {1, 2}
            /\ Len(callOut.synthesis) <= 1
            /\ callOut.result.raised => callOut.synthesis = <<>>

\* C34 witness: transcribe ended on a failed call that was not repeated: the
\* raw call, made once, or the normalization call after a flagged raw
\* transcript, two calls in all
C34_Witness ==
    /\ callOut.applied
    /\ callOut.result.raised
    /\ \/ callIn.raw = UpstreamError /\ callOut.result.calls = <<"transcribe_raw">>
       \/ /\ callIn.raw = UpstreamText(TxShort) /\ callIn.norm = UpstreamError
          /\ callOut.result.calls = <<"transcribe_raw", "normalize_transcript">>

\* the fields of the job agree with its status
JobConsistent(job) ==
    /\ job.status \in {"pending", "ready", "error"}
    /\ job.status = "pending" =>
           /\ IsNone(job.audio_url) /\ IsNone(job.audio_base64)
           /\ IsNone(job.audio_mime) /\ IsNone(job.tts_error)
    /\ job.status = "ready" <=> ~IsNone(job.audio_url)
    /\ job.status = "error" => IsNone(job.audio_url) /\ ~IsNone(job.tts_error)

\* C35: every job of the registry is self-consistent and owned by the
\* identity of the turn that created it, and every job that was ever created
\* is still in the registry
C35_JobsConsistentAndKept ==
    /\ \A j \in DOMAIN AUDIO_JOBS : JobConsistent(AUDIO_JOBS[j])
    /\ DOMAIN jobLog = DOMAIN AUDIO_JOBS
    /\ \A t \in Turns :
           turns[t].jobId # 0 =>
               /\ turns[t].jobId \in DOMAIN AUDIO_JOBS
               /\ AUDIO_JOBS[turns[t].jobId].owner_id = turns[t].user_id
               /\ turns[t].user_id \in Users
    /\ \A j \in DOMAIN AUDIO_JOBS : \E t \in Turns : turns[t].jobId = j

\* C35 witness: two turns of different identities each created a job, and
\* the task of one of them has run
C35_Witness ==
    \E t, u \in Turns :
        /\ turns[t].jobId # 0 /\ turns[u].jobId # 0
        /\ turns[t].user_id # turns[u].user_id
        /\ TaskEnded(t)

\* the calls of check before call i that were admitted for the same key at a
\* time not earlier than `since`
AdmittedBefore(i, since) ==
    {j \in 1..(i - 1) :
        /\ callIn.history[j].key = callIn.history[i].key
        /\ callIn.history[j].admitted
        /\ callIn.history[j].at >= since}

\* C36: for each key at most `limit` requests are admitted in any interval
\* of window_seconds; a request is rejected exactly when `limit` requests of
\* its own key were admitted in the window before it, so rejected requests
\* and requests of other keys do not count; the limiter stores admitted
\* timestamps only
C36_AtMostLimitPerWindow ==
    /\ \A key \in ClientKeys : \A a \in 0..MaxNow :
           Cardinality({j \in 1..Len(callIn.history) :
                           /\ callIn.history[j].key = key
                           /\ callIn.history[j].admitted
                           /\ callIn.history[j].at \in a..(a + RateWindow)}) <= RateLimit
    /\ \A i \in 1..Len(callIn.history) :
           callIn.history[i].admitted <=>
               Cardinality(AdmittedBefore(i, callIn.history[i].at - RateWindow)) < RateLimit
    /\ \A key \in DOMAIN callOut :
           /\ Len(callOut[key]) <= RateLimit
           /\ \A n \in 1..Len(callOut[key]) :
                  \E j \in 1..Len(callIn.history) :
                      /\ callIn.history[j].key = key
                      /\ callIn.history[j].admitted
                      /\ callIn.history[j].at = callOut[key][n]

\* C36 witness: a key was rejected, the other key was admitted at that same
\* time, and the rejected key was admitted again once its window had passed
C36_Witness ==
    \E i, j, k \in 1..Len(callIn.history) :
        /\ i < j /\ j < k
        /\ ~callIn.history[i].admitted
        /\ callIn.history[j].key # callIn.history[i].key
        /\ callIn.history[j].admitted
        /\ callIn.history[j].at = callIn.history[i].at
        /\ callIn.history[k].key = callIn.history[i].key
        /\ callIn.history[k].admitted

\* the refresh tokens handed out so far
RefreshTokensIssued == {tk \in callIn.tokens : tk.type = "refresh"}

\* REFRESH_TOKEN_STORE holds the jti of the refresh tokens that were issued
\* and have neither been rotated nor been removed by a logout
StoreIsLiveTokens ==
    /\ DOMAIN callOut \subseteq {tk.jti : tk \in RefreshTokensIssued} \ callIn.rotated
    /\ \A tk \in RefreshTokensIssued :
           (tk.jti \notin callIn.rotated /\ tk.jti \notin callIn.revoked)
               => tk.jti \in DOMAIN callOut

\* C37: a refresh token is rotated at most once; a rotation that presents a
\* token that was already rotated is answered 401 and issues nothing; the
\* store holds the jti of the live refresh tokens
C37_RotatedOnceThen401 ==
    /\ (callIn.last.op = "refresh" /\ callIn.last.rotated_before)
           => (callIn.last.status = 401 /\ ~callIn.last.issued)
    /\ StoreIsLiveTokens

\* the part of C37 the code keeps: a rotation of an already rotated token
\* never succeeds and never issues tokens, and the store is as described
C37_RotatedOnceThenRejected ==
    /\ (callIn.last.op = "refresh" /\ callIn.last.rotated_before)
           => (callIn.last.status # 200 /\ ~callIn.last.issued)
    /\ StoreIsLiveTokens

\* C38: a rotation that presents a refresh token that was presented to
\* logout before is rejected, issues no tokens and leaves the store as it
\* was; a logout with a string that does not decode, or with a token whose
\* jti is not in the store, answers normally and leaves the store as it was
C38_RevokedNeverRotates ==
    /\ (callIn.last.op = "refresh" /\ callIn.last.revoked_before)
           => (callIn.last.status # 200 /\ ~callIn.last.issued
               /\ callIn.last.store_same)
    /\ (callIn.last.op = "logout"
        /\ (callIn.last.presented = "none" \/ ~callIn.last.in_store_before))
           => (callIn.last.status = 200 /\ callIn.last.store_same)
    /\ DOMAIN callOut \cap callIn.revoked
           \subseteq {tk.jti : tk \in {x \in RefreshTokensIssued : x.exp <= callIn.now}}

\* C38 witness: an unexpired refresh token that was in the store when it was
\* presented to logout has just been refused by /auth/refresh with 401
C38_Witness ==
    /\ callIn.last.op = "refresh"
    /\ callIn.last.presented = "refresh"
    /\ callIn.last.revoked_before
    /\ ~callIn.last.rotated_before
    /\ callIn.last.status = 401
    /\ \E tk \in RefreshTokensIssued :
           tk.jti \in callIn.revoked /\ tk.exp > callIn.now

\* C39: whatever the configured secrets, the API dependency accepts only
\* tokens of type access, the rotation only tokens of type refresh, and the
\* audio route only tokens of type audio bound to the requested file; no
\* token is accepted by two of them
C39_AcceptedByOwnVerifierOnly ==
    callOut.applied =>
        /\ callOut.api => callIn.token.type = "access"
        /\ callOut.rotation => callIn.token.type = "refresh"
        /\ callOut.audio =>
               (callIn.token.type = "audio" /\ callIn.token.file = callIn.filename)
        /\ ~(callOut.api /\ callOut.audio)
        /\ ~(callOut.api /\ callOut.rotation)
        /\ ~(callOut.audio /\ callOut.rotation)

\* C39 witness: AUDIO_TOKEN_SECRET is unset, so an unexpired audio token
\* carries a signature the API dependency verifies, and it is refused there
\* while the audio route accepts it
C39_Witness ==
    /\ callOut.applied
    /\ callIn.cfg.audio = ""
    /\ callIn.token.type = "audio"
    /\ ~DecodeWith(callIn.token, callIn.cfg.access, callIn.now).raised
    /\ ~callOut.api
    /\ callOut.audio

====
